---- MODULE Spec2Model ----
(***************************************************************************)
(* Trend ingestion pipeline: scheduler guard (trendCron), orchestrator     *)
(* (ingestionService), normalizer (normalizeProduct), scoring engine       *)
(* (trendScoring) and the storage operations the orchestrator calls.       *)
(*                                                                         *)
(* Units.  A JavaScript number that is a price is kept in thousandths      *)
(* (mills); a price string produced by toFixed(2) is kept in hundredths    *)
(* (cents); a velocity string produced by toFixed(2) is kept in hundredths *)
(* of a percent.  A nullable column is a sequence: <<>> is null, <<v>> is  *)
(* the value v.                                                            *)
(***************************************************************************)
EXTENDS Integers, Sequences, FiniteSets, TLC

\* ------------------------------------------------------------------ bounds
\* number of triggerIngestion calls that may start a run
MaxRuns == 2
\* longest list an adapter's fetch() returns
MaxFetch == 2
\* number of storage / fetch calls that may throw in one behaviour
MaxFailures == 1
\* number of times a marketplace's listing changes in one behaviour
MaxFeedChanges == 1
\* triggerIngestion activations that may be suspended at an await at once
MaxActivations == 2
\* listeners that may be registered for "trend:discovered"
MaxSubscribers == 2
\* how far beyond [0, 100] the raw scores of direct scoring calls reach
ScoreOvershoot == 2
\* the snapshot prices of direct velocity computations run over 0..MaxPrice
\* cents (and a few larger ones)
MaxPrice == 12

\* ------------------------------------------------------- program constants
BATCH_SIZE == 50
MAX_TITLE == 500
MAX_CURRENCY == 3
BASE_TREND_SCORE == 50

\* the built-in source registry, in registration order
BuiltinSources == <<"aliexpress", "tiktok">>

VALID_CATEGORIES ==
  {"Electronics", "Home & Garden", "Pet Supplies", "Fashion", "Beauty",
   "Sports & Outdoors", "Toys & Games", "Automotive", "Health", "Other"}

\* a table that gives every platform the default weight
UniformWeights ==
  [aliexpress |-> 10, tiktok |-> 10, temu |-> 10, shopify |-> 10, onchain |-> 10]

\* SOURCE_WEIGHTS, in hundredths
SOURCE_WEIGHTS ==
  [aliexpress |-> 30, tiktok |-> 25, temu |-> 15, shopify |-> 15, onchain |-> 15]
DEFAULT_WEIGHT == 10

\* ----------------------------------------------------------------- helpers
Min(a, b) == IF a <= b THEN a ELSE b
Max(a, b) == IF a >= b THEN a ELSE b
Abs(a) == IF a < 0 THEN -a ELSE a

\* Math.min(max, Math.max(min, val))
clamp(val, lo, hi) == Min(hi, Max(lo, val))

\* n / d rounded to the nearest integer, ties away from zero (Number.toFixed
\* on the exact quotient); d > 0
RoundDiv(n, d) ==
  IF n >= 0 THEN (2 * n + d) \div (2 * d) ELSE -((2 * (-n) + d) \div (2 * d))

\* n / d rounded to the nearest integer, ties towards zero; d > 0
RoundHalfDown(n, d) ==
  IF n >= 0 THEN (2 * n + d - 1) \div (2 * d)
  ELSE -((2 * (-n) + d - 1) \div (2 * d))

\* Number.prototype.toFixed(2) of a non-negative price: mills -> cents
ToFixed2(mills) == RoundDiv(mills, 10)

\* an absent (undefined / null) property of a raw record
Undefined == "<undefined>"
\* a property holding a number where the type says string (e.g. currency: 840)
NotAString == "<number>"
IsNullish(v) == v = Undefined
\* JavaScript falsiness of a string-typed property
Falsy(v) == v = Undefined \/ v = ""

\* String.prototype.trim
RECURSIVE TrimLeft(_)
TrimLeft(s) ==
  IF Len(s) > 0 /\ Head(s) = " " THEN TrimLeft(Tail(s)) ELSE s
RECURSIVE TrimRight(_)
TrimRight(s) ==
  IF Len(s) > 0 /\ SubSeq(s, Len(s), Len(s)) = " "
  THEN TrimRight(SubSeq(s, 1, Len(s) - 1)) ELSE s
Trim(s) == TrimRight(TrimLeft(s))

Unsliced(s, n) == s

\* String.prototype.slice(0, n)
Slice0(s, n) == SubSeq(s, 1, Min(Len(s), n))

\* String.prototype.toUpperCase on the letters the listings use
UpperChar(c) ==
  CASE c = "u" -> "U" [] c = "s" -> "S" [] c = "d" -> "D"
    [] c = "e" -> "E" [] c = "r" -> "R" [] c = "o" -> "O"
    [] OTHER -> c
RECURSIVE ToUpperCase(_)
ToUpperCase(s) ==
  IF Len(s) = 0 THEN "" ELSE UpperChar(Head(s)) \o ToUpperCase(Tail(s))

\* String.prototype.toLowerCase on the letters the platform names use
LowerChar(c) ==
  CASE c = "A" -> "a" [] c = "T" -> "t" [] c = "S" -> "s"
    [] c = "O" -> "o" [] OTHER -> c
RECURSIVE ToLowerCase(_)
ToLowerCase(s) ==
  IF Len(s) = 0 THEN "" ELSE LowerChar(Head(s)) \o ToLowerCase(Tail(s))

\* ---------------------------------------------------------- normalizeProduct
\* A raw price is <<"undef">>, <<"nan">> or <<"num", mills>>.
PriceMissing(p) == p[1] = "undef"
\* Number.isFinite(price) && price >= 0
PriceOk(p) == p[1] = "num" /\ p[2] >= 0

\* normalizeProduct(raw): [kind |-> "null"] for a rejected record,
\* [kind |-> "throw"] when the call raises a TypeError,
\* [kind |-> "ok", product |-> CanonicalProduct] otherwise.
normalizeProduct(raw) ==
  IF Falsy(raw.externalId) \/ Falsy(raw.title) \/ Falsy(raw.source)
       \/ PriceMissing(raw.price)
  THEN [kind |-> "null"]
  ELSE IF ~PriceOk(raw.price)
  THEN [kind |-> "null"]
  ELSE IF raw.currency = NotAString
  THEN [kind |-> "throw"]
  ELSE [kind |-> "ok",
        product |->
          [externalId |-> Trim(raw.externalId),
           title      |-> Slice0(Trim(raw.title), MAX_TITLE),
           source     |-> raw.source,
           price      |-> raw.price[2],
           currency   |-> Slice0(ToUpperCase(IF IsNullish(raw.currency)
                                              THEN "USD" ELSE raw.currency),
                                 MAX_CURRENCY),
           imageUrl   |-> IF IsNullish(raw.imageUrl) THEN "" ELSE raw.imageUrl,
           productUrl |-> IF IsNullish(raw.productUrl) THEN "" ELSE raw.productUrl,
           category   |-> IF ~Falsy(raw.category) /\ raw.category \in VALID_CATEGORIES
                          THEN raw.category ELSE "Other"]]

\* -------------------------------------------------------- calculateTrendScore
\* A JavaScript number is <<"num", n>> or <<"nan">>; an absent (undefined or
\* null) number is <<"undef">>.
Num(n) == <<"num", n>>
NaN == <<"nan">>
Absent == <<"undef">>

\* the lower-case property names every object inherits from Object.prototype
InheritedKeys == {"constructor", "__proto__"}

\* SOURCE_WEIGHTS[sourceKey] ?? 0.10, in hundredths.  The table is a plain
\* object: a key that names an inherited property yields that property (a
\* function or an object, not nullish), which arithmetic turns into NaN.
sourceMultiplier(sourceKey) ==
  IF sourceKey \in DOMAIN SOURCE_WEIGHTS THEN Num(SOURCE_WEIGHTS[sourceKey])
  ELSE IF sourceKey \in InheritedKeys THEN NaN
  ELSE Num(DEFAULT_WEIGHT)

\* a band that looks at the snapshot count only
BandIgnoresVelocity(priceVelocity, snapshots) ==
  IF snapshots >= 10 THEN "high"
  ELSE IF snapshots >= 3 THEN "medium"
  ELSE "low"

\* the confidence band of calculateTrendScore
ConfidenceBand(priceVelocity, snapshots) ==
  IF snapshots >= 10 /\ priceVelocity # <<>> THEN "high"
  ELSE IF snapshots >= 3 THEN "medium"
  ELSE "low"

\* rawScore: Num(n), NaN or Absent; priceVelocity: <<>> (null) or
\* <<hundredths of a percent>>; sourcePlatform: a string or Undefined;
\* snapshotCount >= 0.  All sums are in ten-thousandths of a point.
calculateTrendScore(rawScore, priceVelocity, sourcePlatform, snapshotCount) ==
  LET base == IF rawScore = Absent THEN Num(BASE_TREND_SCORE)
              ELSE IF rawScore = NaN THEN NaN
              ELSE Num(clamp(rawScore[2], 0, 100))
      velocity == IF priceVelocity = <<>> THEN 0 ELSE priceVelocity[1]
      sourceKey == ToLowerCase(IF IsNullish(sourcePlatform) THEN ""
                               ELSE sourcePlatform)
      weight == sourceMultiplier(sourceKey)
      velocityContribution == clamp(velocity * 75, -150000, 150000)
      trendScore ==
        IF base = NaN \/ weight = NaN THEN NaN
        ELSE LET sourceContribution == base[2] * weight[2] * 65
                 raw == base[2] * 5500 + sourceContribution + velocityContribution
                 clamped == clamp(raw, 0, 1000000)
             IN Num((clamped + 5000) \div 10000)
  IN [trendScore |-> trendScore,
      confidenceBand |-> ConfidenceBand(priceVelocity, snapshotCount)]

\* ------------------------------------------------------------ marketplaces
\* What an adapter maps one marketplace listing to.  The built-in adapters
\* set source to their own name and pass the other properties through.
RawListing(s) ==
  [externalId |-> "a", title |-> "Neck Fan", source |-> s,
   price |-> <<"num", 10000>>, currency |-> "usd", imageUrl |-> "img",
   productUrl |-> "url", category |-> "Electronics"]
\* the same product listed again: padded id and title, another price, an
\* unknown category, no currency, image or url
RawRelisted(s) ==
  [externalId |-> " a", title |-> " Neck Fan v2 ", source |-> s,
   price |-> <<"num", 7996>>, currency |-> Undefined, imageUrl |-> Undefined,
   productUrl |-> Undefined, category |-> "Gadgets"]
\* a second product, given away for free
RawFree(s) ==
  [externalId |-> "b", title |-> "Flat Mop", source |-> s,
   price |-> <<"num", 0>>, currency |-> "euro", imageUrl |-> "img",
   productUrl |-> "url", category |-> "Home & Garden"]
\* a listing without a title
RawNoTitle(s) ==
  [externalId |-> "c", title |-> Undefined, source |-> s,
   price |-> <<"num", 500>>, currency |-> "usd", imageUrl |-> "img",
   productUrl |-> "url", category |-> "Beauty"]
\* a listing whose currency is a number (ISO 4217 numeric code)
RawNumericCurrency(s) ==
  [externalId |-> "d", title |-> "Pet Bed", source |-> s,
   price |-> <<"num", 500>>, currency |-> NotAString, imageUrl |-> "img",
   productUrl |-> "url", category |-> "Pet Supplies"]

\* the n-th listing of a marketplace page that is longer than one batch
RawBulk(s, n) ==
  [externalId |-> "p" \o ToString(n), title |-> "Phone Case", source |-> s,
   price |-> <<"num", 5000>>, currency |-> "usd", imageUrl |-> "img",
   productUrl |-> "url", category |-> "Electronics"]
\* a fetch() result of BATCH_SIZE + 1 products
BulkFeed(s) == [n \in 1..(BATCH_SIZE + 1) |-> RawBulk(s, n)]

\* the listings each marketplace may carry
RawListings(s) ==
  IF s = "aliexpress"
  THEN {RawListing(s), RawRelisted(s), RawFree(s), RawNoTitle(s)}
  ELSE {RawListing(s), RawNumericCurrency(s)}

SeqsUpTo(S, n) == UNION {[1..k -> S] : k \in 0..n}
\* the lists fetch() of source s can return
Feeds(s) == SeqsUpTo(RawListings(s), MaxFetch)

SourceNames == {BuiltinSources[k] : k \in DOMAIN BuiltinSources}

\* -------------------------------------------------------------------- state
VARIABLES
  isRunning,       \* trendCron: let isRunning
  lastRunAt,       \* trendCron: let lastRunAt (<<>> is null)
  sources,         \* ingestionService: const sources (the registry)
  trends,          \* table trends, in insertion order; id = position
  priceSnapshots,  \* table price_snapshots, in insertion order
  events,          \* payloads emitted on ingestionEvents, in order
  feed,            \* what each marketplace currently lists
  now,             \* the clock read by new Date()
  act,             \* the suspended triggerIngestion activations
  lastReturn,      \* what the latest triggerIngestion call returned (<<>>: none yet)
  subscribers,     \* listeners of "trend:discovered" on ingestionEvents, in order
  call, ret,       \* a direct call of an exported pure function and its result
  cron,            \* trendCron: scheduledTask, the cron tasks and startup timers
  runsStarted, failures, feedChanges  \* counters that bound the behaviours

vars ==
  <<isRunning, lastRunAt, sources, trends, priceSnapshots, events, feed, now,
    act, lastReturn, subscribers, call, ret, cron, runsStarted, failures,
    feedChanges>>

Activations == 1..MaxActivations

\* IngestionResult of ingestSource
NewResult(name) ==
  [source |-> name, fetched |-> 0, upserted |-> 0, newTrends |-> 0, errors |-> 0]

\* an activation that is not executing.  snapsBefore is not a variable of the
\* program: it records the size of price_snapshots when processProduct began.
Idle ==
  [pc |-> "idle", startedAt |-> 0, src |-> 0, results |-> <<>>,
   result |-> <<>>, rawProducts |-> <<>>, normalized |-> <<>>, i |-> 0,
   j |-> 0, at |-> 0, snapsBefore |-> 0,
   existing |-> <<>>, trend |-> <<>>, isNew |-> FALSE, velocity |-> <<>>,
   score |-> 0, direct |-> FALSE]

\* a startup timer of startTrendCron: waiting for its delay, inside
\* seedMockData (seeding: the count query; select, insert, history: the loop
\* over the catalogue at product k, id the row just inserted; return),
\* seeded (seedMockData settled, seed tells how and result what it returned),
\* called (triggerIngestion was called; calls counts how often).  present
\* is not a variable of the program: it records whether every catalogue
\* product was stored when seedMockData was called.
NewTimer ==
  [pc |-> "waiting", seed |-> "none", calls |-> 0, k |-> 0, id |-> 0,
   created |-> 0, result |-> <<>>, present |-> FALSE]

\* trendCron before startTrendCron was ever called.  scheduledTask is <<>>
\* (null) or <<k>>, the k-th task made by cron.schedule; tasks tells for each
\* task made so far whether it is active; calls counts the startTrendCron
\* and stopTrendCron calls.
Unscheduled ==
  [scheduledTask |-> <<>>, tasks |-> <<>>, timers |-> <<>>, calls |-> 0]

\* trendCron after the server's one call of startTrendCron
Booted ==
  [scheduledTask |-> <<1>>, tasks |-> <<TRUE>>, timers |-> <<NewTimer>>,
   calls |-> 1]

Init ==
  /\ isRunning = FALSE
  /\ lastRunAt = <<>>
  /\ sources = BuiltinSources
  /\ trends = <<>>
  /\ priceSnapshots = <<>>
  /\ events = <<>>
  /\ feed \in [SourceNames -> UNION {Feeds(s) : s \in SourceNames}]
  /\ \A s \in SourceNames : feed[s] \in Feeds(s)
  /\ now = 1
  /\ act = [r \in Activations |-> Idle]
  /\ lastReturn = <<>>
  /\ subscribers = <<"log">>
  /\ cron = Booted
  /\ call = <<>>
  /\ ret = <<>>
  /\ runsStarted = 0
  /\ failures = 0
  /\ feedChanges = 0

\* ------------------------------------------------------------------ storage
\* a lookup that finds nothing (blind insert)
MatchingNothing(externalId, sourcePlatform) == {}

\* the rows WHERE external_id = externalId AND source_platform = sourcePlatform
MatchingTrends(externalId, sourcePlatform) ==
  {k \in DOMAIN trends :
     /\ trends[k].externalId = externalId
     /\ trends[k].sourcePlatform = sourcePlatform}

\* an update that writes every column of data (.set(data))
UpdatedEveryColumn(row, data) ==
  [row EXCEPT !.name = data.name, !.imageUrl = data.imageUrl,
              !.category = data.category, !.productUrl = data.productUrl,
              !.trendScore = data.trendScore, !.description = data.description,
              !.detectedAt = data.detectedAt]

\* an update that leaves the stored score in place
UpdatedKeepsScore(row, data) ==
  [row EXCEPT !.name = data.name, !.imageUrl = data.imageUrl,
              !.category = data.category, !.productUrl = data.productUrl]

\* UPDATE trends SET name, imageUrl, category, productUrl, trendScore WHERE id
UpdatedTrend(row, data) ==
  [row EXCEPT !.name = data.name, !.imageUrl = data.imageUrl,
              !.category = data.category, !.productUrl = data.productUrl,
              !.trendScore = data.trendScore]

\* INSERT INTO trends VALUES data RETURNING *: serial id, price_velocity null
InsertedTrend(id, data) ==
  [id |-> id, name |-> data.name, category |-> data.category,
   description |-> data.description, trendScore |-> data.trendScore,
   productUrl |-> data.productUrl, imageUrl |-> data.imageUrl,
   sourcePlatform |-> data.sourcePlatform, externalId |-> data.externalId,
   priceVelocity |-> <<>>, detectedAt |-> data.detectedAt]

\* an insert that keeps one row per trend (overwrites the trend's latest)
ReplacedSnapshot(rows, snapshot) ==
  IF \E k \in DOMAIN rows : rows[k].trendId = snapshot.trendId
  THEN LET last == CHOOSE k \in DOMAIN rows :
                     /\ rows[k].trendId = snapshot.trendId
                     /\ \A m \in DOMAIN rows :
                          rows[m].trendId = snapshot.trendId => m <= k
       IN [rows EXCEPT ![last] = snapshot]
  ELSE Append(rows, snapshot)

\* createPriceSnapshot: INSERT INTO price_snapshots VALUES snapshot
createPriceSnapshot(rows, snapshot) == Append(rows, snapshot)

\* getLastTwoPriceSnapshots: ORDER BY recorded_at DESC LIMIT 2
SnapshotsOf(trendId) ==
  SelectSeq(priceSnapshots, LAMBDA sn : sn.trendId = trendId)
\* the two latest snapshots, oldest first
getLastTwoAscending(trendId) ==
  LET mine == SnapshotsOf(trendId)
      n == Len(mine)
  IN IF n = 0 THEN <<>>
     ELSE IF n = 1 THEN <<mine[1]>>
     ELSE <<mine[n - 1], mine[n]>>

getLastTwoPriceSnapshots(trendId) ==
  LET mine == SnapshotsOf(trendId)
      n == Len(mine)
  IN IF n = 0 THEN <<>>
     ELSE IF n = 1 THEN <<mine[1]>>
     ELSE <<mine[n], mine[n - 1]>>

\* getSnapshotCount
getSnapshotCount(trendId) == Len(SnapshotsOf(trendId))

\* ------------------------------------------------------------- orchestrator
\* the InsertTrend that processProduct hands to upsertTrendByExternalId
TrendData(product, at) ==
  [name |-> product.title, category |-> product.category,
   description |-> <<"Trending on", product.source, product.currency,
                     ToFixed2(product.price)>>,
   trendScore |-> BASE_TREND_SCORE, productUrl |-> product.productUrl,
   imageUrl |-> product.imageUrl, sourcePlatform |-> product.source,
   externalId |-> product.externalId, detectedAt |-> at]

\* a dedup key that tells apart listings of one product by their title
DedupKeyWithTitle(product) ==
  product.source \o ":" \o product.externalId \o ":" \o product.title

\* the dedup key of ingestSource
DedupKey(product) == product.source \o ":" \o product.externalId

\* a dedup that keeps every occurrence
NeverSeen(seen, key) == FALSE

\* seen.has(key)
AlreadySeen(seen, key) == key \in seen

\* a rejection that is not counted
RejectionIgnored(st) == st

\* ingestSource: if (!product) { result.errors++; continue }
OnRejected(st) == [st EXCEPT !.errors = @ + 1]

\* ingestSource step 2: the normalize / dedup loop over rawProducts[k..].
\* st = [normalized, seen, errors, threw]
RECURSIVE NormalizeLoop(_, _, _)
NormalizeLoop(rawProducts, k, st) ==
  IF k > Len(rawProducts) THEN st
  ELSE LET n == normalizeProduct(rawProducts[k])
       IN IF n.kind = "throw" THEN [st EXCEPT !.threw = TRUE]
          ELSE IF n.kind = "null"
          THEN NormalizeLoop(rawProducts, k + 1, OnRejected(st))
          ELSE IF AlreadySeen(st.seen, DedupKey(n.product))
          THEN NormalizeLoop(rawProducts, k + 1, st)
          ELSE NormalizeLoop(rawProducts, k + 1,
                 [st EXCEPT !.seen = @ \cup {DedupKey(n.product)},
                            !.normalized = Append(@, n.product)])

NormalizeAndFilter(rawProducts) ==
  NormalizeLoop(rawProducts, 1,
    [normalized |-> <<>>, seen |-> {}, errors |-> 0, threw |-> FALSE])

RECURSIVE SumField(_, _)
SumField(results, f) ==
  IF results = <<>> THEN 0 ELSE Head(results)[f] + SumField(Tail(results), f)

\* runIngestion's return value
RunResult(a, results) ==
  [startedAt |-> a.startedAt, completedAt |-> now, sources |-> results,
   totalNew |-> SumField(results, "newTrends"),
   totalUpserted |-> SumField(results, "upserted"),
   totalErrors |-> SumField(results, "errors")]

\* the product processProduct is working on
CurrentProduct(a) == a.normalized[a.i + a.j]

\* the locals of processProduct / computeVelocityAndScore, cleared
ClearItem(a) ==
  [a EXCEPT !.existing = <<>>, !.trend = <<>>, !.isNew = FALSE,
            !.velocity = <<>>, !.score = 0, !.at = 0, !.snapsBefore = 0]

\* runIngestion was called by a caller other than triggerIngestion (direct
\* is set) and returns or throws to that caller: the variables of trendCron
\* stay as they are
DirectReturns(r) ==
  /\ act' = [act EXCEPT ![r] = Idle]
  /\ UNCHANGED <<isRunning, lastRunAt, lastReturn>>

\* the return path without the finally block
CompletedKeepsGuard(r, a, results) ==
  /\ act' = [act EXCEPT ![r] = Idle]
  /\ lastRunAt' = <<now>>
  /\ lastReturn' = <<[status |-> "completed", result |-> RunResult(a, results)]>>
  /\ UNCHANGED isRunning

\* triggerIngestion: runIngestion returned; lastRunAt, return, finally
Completed(r, a, results) ==
  IF a.direct THEN DirectReturns(r)
  ELSE /\ act' = [act EXCEPT ![r] = Idle]
       /\ lastRunAt' = <<now>>
       /\ lastReturn' = <<[status |-> "completed",
                           result |-> RunResult(a, results)]>>
       /\ isRunning' = FALSE

\* String(err) of the TypeError normalizeProduct raises
ErrorText == "TypeError: toUpperCase is not a function"

\* what triggerIngestion returns from its catch block
FailedResult == [status |-> "failed", error |-> ErrorText]

\* a run whose exception reaches the caller of triggerIngestion
FailedPropagates(r) ==
  /\ act' = [act EXCEPT ![r] = Idle]
  /\ lastReturn' = <<[status |-> "raised", error |-> ErrorText]>>
  /\ isRunning' = FALSE
  /\ UNCHANGED lastRunAt

\* the catch path without the finally block
FailedKeepsGuard(r) ==
  /\ act' = [act EXCEPT ![r] = Idle]
  /\ lastReturn' = <<FailedResult>>
  /\ UNCHANGED <<isRunning, lastRunAt>>

\* a failed run that is recorded like a completed one
FailedStampsRun(r) ==
  /\ act' = [act EXCEPT ![r] = Idle]
  /\ lastReturn' = <<FailedResult>>
  /\ isRunning' = FALSE
  /\ lastRunAt' = <<now>>

\* triggerIngestion: runIngestion threw; catch, return, finally
Failed(r) ==
  IF act[r].direct THEN DirectReturns(r)
  ELSE /\ act' = [act EXCEPT ![r] = Idle]
       /\ lastReturn' = <<FailedResult>>
       /\ isRunning' = FALSE
       /\ UNCHANGED lastRunAt

\* runIngestion: ingestSource returned a.result; next source or return
SourceDone(r, a) ==
  LET results == Append(a.results, a.result)
  IN IF a.src < Len(sources)
     THEN /\ act' = [act EXCEPT ![r] =
                       [ClearItem(a) EXCEPT !.pc = "fetch", !.src = a.src + 1,
                          !.results = results,
                          !.result = NewResult(sources[a.src + 1]),
                          !.rawProducts = <<>>, !.normalized = <<>>,
                          !.i = 0, !.j = 0]]
          /\ UNCHANGED <<isRunning, lastRunAt, lastReturn>>
     ELSE Completed(r, a, results)

\* processBatch / ingestSource loops: the item is over; next item, next
\* batch, or the source is done
NextItem(r, a) ==
  LET batchLen == Min(BATCH_SIZE, Len(a.normalized) - a.i)
  IN IF a.j < batchLen
     THEN /\ act' = [act EXCEPT ![r] =
                       [ClearItem(a) EXCEPT !.pc = "select", !.j = a.j + 1,
                          !.at = now, !.snapsBefore = Len(priceSnapshots)]]
          /\ UNCHANGED <<isRunning, lastRunAt, lastReturn>>
     ELSE IF a.i + BATCH_SIZE < Len(a.normalized)
     THEN /\ act' = [act EXCEPT ![r] =
                       [ClearItem(a) EXCEPT !.pc = "select",
                          !.i = a.i + BATCH_SIZE, !.j = 1, !.at = now,
                          !.snapsBefore = Len(priceSnapshots)]]
          /\ UNCHANGED <<isRunning, lastRunAt, lastReturn>>
     ELSE SourceDone(r, a)

\* a catch that does not count the item
ItemThrewUncounted(r, a) == NextItem(r, a)

\* a catch that counts the error and processes the same product again
ItemThrewRetries(r, a) ==
  /\ act' = [act EXCEPT ![r] = [ClearItem(a) EXCEPT !.pc = "select",
                                                   !.result.errors = @ + 1]]
  /\ UNCHANGED <<isRunning, lastRunAt, lastReturn>>

\* processBatch: catch (err) { result.errors++ }
ItemThrew(r, a) == NextItem(r, [a EXCEPT !.result.errors = @ + 1])

\* ---------------------------------------------------------------- scheduler
\* a guard that never rejects
GuardNeverRejects == FALSE

\* triggerIngestion: if (isRunning)
AlreadyRunning == isRunning

\* the activation record a new call of triggerIngestion gets
FreeActivation ==
  CHOOSE r \in Activations :
    /\ act[r].pc = "idle"
    /\ \A q \in Activations : q < r => act[q].pc # "idle"

\* triggerIngestion up to its first await: the entry point shared by the
\* node-cron task, the startup timer and the manual callers
TriggerCall ==
  \/ /\ AlreadyRunning
     /\ lastReturn' = <<[status |-> "skipped", reason |-> "already_running"]>>
     /\ UNCHANGED <<isRunning, lastRunAt, sources, subscribers, call, ret, trends, priceSnapshots,
                    events, feed, now, act, runsStarted, failures, feedChanges>>
  \/ /\ ~AlreadyRunning
     /\ runsStarted < MaxRuns
     /\ \E r \in Activations : act[r].pc = "idle"
     /\ isRunning' = TRUE
     /\ act' = [act EXCEPT ![FreeActivation] =
                  [Idle EXCEPT !.pc = "fetch", !.startedAt = now, !.src = 1,
                               !.result = NewResult(sources[1])]]
     /\ runsStarted' = runsStarted + 1
     /\ now' = now + 1
     /\ UNCHANGED <<lastRunAt, sources, subscribers, call, ret, trends, priceSnapshots, events, feed,
                    lastReturn, failures, feedChanges>>

\* triggerIngestion called by the admin route or by a tick of the schedule
triggerIngestion == TriggerCall /\ UNCHANGED cron

\* a storage or fetch call rejects
Throws == failures < MaxFailures /\ failures' = failures + 1
Returns == UNCHANGED failures

\* a fetch failure that escapes ingestSource
FetchFailedAborts(r, a) == Failed(r)

\* ingestSource: catch (err) { result.errors = 1; return result }
FetchFailed(r, a) == SourceDone(r, [a EXCEPT !.result.errors = 1])

\* ingestSource: await source.fetch(), then the normalize / dedup loop
Fetch(r) ==
  LET a == act[r]
      name == sources[a.src]
  IN /\ a.pc = "fetch"
     /\ UNCHANGED <<sources, cron, subscribers, call, ret, trends, priceSnapshots, events, feed, now,
                    runsStarted, feedChanges>>
     /\ \/ /\ Throws
           /\ FetchFailed(r, a)
        \/ /\ Returns
           /\ LET rawProducts == feed[name]
                  st == NormalizeAndFilter(rawProducts)
                  b == [a EXCEPT !.result.fetched = Len(rawProducts),
                                 !.result.errors = st.errors,
                                 !.rawProducts = rawProducts,
                                 !.normalized = st.normalized]
              IN IF st.threw THEN Failed(r)
                 ELSE IF st.normalized = <<>> THEN SourceDone(r, b)
                 ELSE /\ act' = [act EXCEPT ![r] =
                                   [b EXCEPT !.pc = "select", !.i = 0, !.j = 1,
                                      !.at = now,
                                      !.snapsBefore = Len(priceSnapshots)]]
                      /\ UNCHANGED <<isRunning, lastRunAt, lastReturn>>

\* a marketplace changes what it lists.  A change is seen only by the next
\* fetch() of that source, so it is taken between two runs.
FeedChange ==
  /\ feedChanges < MaxFeedChanges
  /\ runsStarted > 0
  /\ \A r \in Activations : act[r].pc = "idle"
  /\ feedChanges' = feedChanges + 1
  /\ \E s \in SourceNames : \E f \in Feeds(s) :
       /\ f # feed[s]
       /\ feed' = [feed EXCEPT ![s] = f]
  /\ UNCHANGED <<isRunning, lastRunAt, sources, cron, subscribers, call, ret, trends, priceSnapshots, events,
                 now, act, lastReturn, runsStarted, failures>>

\* ------------------------------------------ processProduct, call by call
\* an upsert that always reports a new row
AlwaysNew(existing) == TRUE

\* upsertTrendByExternalId: isNew
IsNew(existing) == existing = <<>>

\* upsertTrendByExternalId: const [existing] = await db.select()...
UpsertSelect(r) ==
  LET a == act[r]
      product == CurrentProduct(a)
      found == MatchingTrends(product.externalId, product.source)
  IN /\ a.pc = "select"
     /\ UNCHANGED <<sources, cron, subscribers, call, ret, trends, priceSnapshots, events, feed, now,
                    runsStarted, feedChanges>>
     /\ \/ /\ Throws
           /\ ItemThrew(r, a)
        \/ /\ Returns
           /\ \E e \in (IF found = {} THEN {<<>>} ELSE {<<k>> : k \in found}) :
                act' = [act EXCEPT ![r] = [a EXCEPT !.pc = "write", !.existing = e]]
           /\ UNCHANGED <<isRunning, lastRunAt, lastReturn>>

\* an emitter that fires on every upsert
EmittedOnEveryUpsert(evs, isNew, trend) == Append(evs, trend)

\* processProduct: if (isNew) ingestionEvents.emit(EVENT_NEW_TREND, trend)
Emitted(evs, isNew, trend) == IF isNew THEN Append(evs, trend) ELSE evs

\* EventEmitter.emit calls the listeners synchronously and in order; what a
\* listener throws leaves emit.  The listener of startTrendCron ("log")
\* only logs; a listener registered by a collaborator ("consumer") is code
\* of that collaborator and may return or throw.
MayThrow(listeners) == \E k \in DOMAIN listeners : listeners[k] = "consumer"

\* upsertTrendByExternalId: the UPDATE or the INSERT; then processProduct's
\* counters and the trend:discovered event
UpsertWrite(r) ==
  LET a == act[r]
      data == TrendData(CurrentProduct(a), a.at)
      isNew == IsNew(a.existing)
      trend == IF a.existing # <<>>
               THEN UpdatedTrend(trends[a.existing[1]], data)
               ELSE InsertedTrend(Len(trends) + 1, data)
      counted == [a EXCEPT !.result.upserted = @ + 1,
                           !.result.newTrends = IF isNew THEN @ + 1 ELSE @]
  IN /\ a.pc = "write"
     /\ UNCHANGED <<sources, cron, subscribers, call, ret, priceSnapshots, feed, now,
                    runsStarted, feedChanges>>
     /\ \/ /\ Throws
           /\ ItemThrew(r, a)
           /\ UNCHANGED <<trends, events>>
        \/ /\ Returns
           /\ trends' = IF a.existing # <<>>
                        THEN [trends EXCEPT ![a.existing[1]] = trend]
                        ELSE Append(trends, trend)
           /\ events' = Emitted(events, isNew, trend)
           /\ \/ /\ isNew
                 /\ MayThrow(subscribers)
                 /\ ItemThrew(r, counted)
              \/ /\ act' = [act EXCEPT ![r] =
                              [counted EXCEPT !.pc = "snapshot",
                                 !.trend = <<trend>>, !.isNew = isNew]]
                 /\ UNCHANGED <<isRunning, lastRunAt, lastReturn>>

\* a snapshot whose price is cut to cents instead of rounded
SnapshotTruncated(trend, product, at) ==
  [trendId |-> trend.id, source |-> product.source,
   price |-> product.price \div 10, recordedAt |-> at]

\* the InsertPriceSnapshot of processProduct
SnapshotData(trend, product, at) ==
  [trendId |-> trend.id, source |-> product.source,
   price |-> ToFixed2(product.price), recordedAt |-> at]

\* processProduct: await storage.createPriceSnapshot(...)
CreatePriceSnapshot(r) ==
  LET a == act[r]
  IN /\ a.pc = "snapshot"
     /\ UNCHANGED <<sources, cron, subscribers, call, ret, trends, events, feed, runsStarted, feedChanges>>
     /\ \/ /\ Throws
           /\ ItemThrew(r, a)
           /\ UNCHANGED <<priceSnapshots, now>>
        \/ /\ Returns
           /\ priceSnapshots' =
                createPriceSnapshot(priceSnapshots,
                  SnapshotData(a.trend[1], CurrentProduct(a), now))
           /\ now' = now + 1
           /\ act' = [act EXCEPT ![r] = [a EXCEPT !.pc = "lastTwo"]]
           /\ UNCHANGED <<isRunning, lastRunAt, lastReturn>>

\* a velocity cut off after two decimals
VelocityTruncated(snapshots) ==
  IF Len(snapshots) >= 2 /\ snapshots[2].price # 0
  THEN LET n == (snapshots[1].price - snapshots[2].price) * 10000
           p == snapshots[2].price
       IN {<<IF n >= 0 THEN n \div p ELSE -((-n) \div p)>>}
  ELSE {<<>>}

\* computeVelocityAndScore: the values velocity can take for snapshots, given
\* most recent first.  toFixed(2) rounds the double pctChange to the nearest
\* hundredth; when the exact quotient lies half-way between two hundredths,
\* the rounding error of the double decides which of the two it is.
Velocity(snapshots) ==
  IF Len(snapshots) >= 2 /\ snapshots[2].price # 0
  THEN LET n == (snapshots[1].price - snapshots[2].price) * 10000
           p == snapshots[2].price
       IN {<<RoundDiv(n, p)>>, <<RoundHalfDown(n, p)>>}
  ELSE {<<>>}

\* a calculator that writes whatever it computed
AlwaysWritesVelocity(velocity) == "velocity"

\* computeVelocityAndScore: updateTrendVelocity is awaited only inside
\* if (snapshots.length >= 2) { if (previous !== 0) { ... } }
AfterVelocity(velocity) == IF velocity # <<>> THEN "velocity" ELSE "count"

\* computeVelocityAndScore: await storage.getLastTwoPriceSnapshots(trend.id)
GetLastTwo(r) ==
  LET a == act[r]
  IN /\ a.pc = "lastTwo"
     /\ UNCHANGED <<sources, cron, subscribers, call, ret, trends, priceSnapshots,
                    events, feed, now, runsStarted, feedChanges>>
     /\ \/ /\ Throws
           /\ ItemThrew(r, a)
        \/ /\ Returns
           /\ \E velocity \in Velocity(getLastTwoPriceSnapshots(a.trend[1].id)) :
                act' = [act EXCEPT ![r] =
                          [a EXCEPT !.velocity = velocity,
                             !.pc = AfterVelocity(velocity)]]
           /\ UNCHANGED <<isRunning, lastRunAt, lastReturn>>

\* storage.updateTrendVelocity: UPDATE trends SET price_velocity WHERE id
updateTrendVelocity(rows, trendId, velocity) ==
  [k \in DOMAIN rows |->
     IF rows[k].id = trendId THEN [rows[k] EXCEPT !.priceVelocity = velocity]
     ELSE rows[k]]

\* storage.updateTrendScore: UPDATE trends SET trend_score WHERE id
updateTrendScore(rows, trendId, score) ==
  [k \in DOMAIN rows |->
     IF rows[k].id = trendId THEN [rows[k] EXCEPT !.trendScore = score]
     ELSE rows[k]]

\* computeVelocityAndScore: await storage.updateTrendVelocity(trend.id, velocity)
UpdateVelocity(r) ==
  LET a == act[r]
  IN /\ a.pc = "velocity"
     /\ UNCHANGED <<sources, cron, subscribers, call, ret, priceSnapshots, events, feed, now, runsStarted,
                    feedChanges>>
     /\ \/ /\ Throws
           /\ ItemThrew(r, a)
           /\ UNCHANGED trends
        \/ /\ Returns
           /\ trends' = updateTrendVelocity(trends, a.trend[1].id, a.velocity)
           /\ act' = [act EXCEPT ![r] = [a EXCEPT !.pc = "count"]]
           /\ UNCHANGED <<isRunning, lastRunAt, lastReturn>>

\* computeVelocityAndScore: await storage.getSnapshotCount(trend.id), then
\* calculateTrendScore
GetSnapshotCount(r) ==
  LET a == act[r]
      trend == a.trend[1]
      scored == calculateTrendScore(Num(trend.trendScore), a.velocity,
                                    CurrentProduct(a).source,
                                    getSnapshotCount(trend.id))
  IN /\ a.pc = "count"
     /\ UNCHANGED <<sources, cron, subscribers, call, ret, trends, priceSnapshots, events, feed, now,
                    runsStarted, feedChanges>>
     /\ \/ /\ Throws
           /\ ItemThrew(r, a)
        \/ /\ Returns
           /\ act' = [act EXCEPT ![r] =
                        [a EXCEPT !.pc = "score", !.score = scored.trendScore[2]]]
           /\ UNCHANGED <<isRunning, lastRunAt, lastReturn>>

\* computeVelocityAndScore: await storage.updateTrendScore(trend.id, trendScore)
UpdateScore(r) ==
  LET a == act[r]
  IN /\ a.pc = "score"
     /\ UNCHANGED <<sources, cron, subscribers, call, ret, priceSnapshots, events, feed, now, runsStarted,
                    feedChanges>>
     /\ \/ /\ Throws
           /\ ItemThrew(r, a)
           /\ UNCHANGED trends
        \/ /\ Returns
           /\ trends' = updateTrendScore(trends, a.trend[1].id, a.score)
           /\ NextItem(r, a)

Next ==
  \/ triggerIngestion
  \/ FeedChange
  \/ \E r \in Activations : Fetch(r)
  \/ \E r \in Activations : UpsertSelect(r)
  \/ \E r \in Activations : UpsertWrite(r)
  \/ \E r \in Activations : CreatePriceSnapshot(r)
  \/ \E r \in Activations : GetLastTwo(r)
  \/ \E r \in Activations : UpdateVelocity(r)
  \/ \E r \in Activations : GetSnapshotCount(r)
  \/ \E r \in Activations : UpdateScore(r)

Spec == Init /\ [][Next]_vars

\* a collaborator (blockchain stamper, notifications) subscribes:
\* ingestionEvents.on(EVENT_NEW_TREND, listener)
Subscribe ==
  /\ Len(subscribers) < MaxSubscribers
  /\ subscribers' = Append(subscribers, "consumer")
  /\ UNCHANGED <<isRunning, lastRunAt, sources, cron, trends, priceSnapshots, events,
                 feed, now, act, lastReturn, call, ret, runsStarted, failures,
                 feedChanges>>

NextSubscribers == Next \/ Subscribe

\* the pipeline together with collaborators that subscribe to its events
SpecSubscribers == Init /\ [][NextSubscribers]_vars

\* The state after one run in which aliexpress listed one product and
\* tiktok nothing: the product's row, scored with its single snapshot.
FirstProduct == normalizeProduct(RawBulk("aliexpress", 1)).product
FirstInserted == InsertedTrend(1, TrendData(FirstProduct, 2))
FirstScored ==
  [FirstInserted EXCEPT !.trendScore =
     calculateTrendScore(Num(FirstInserted.trendScore), <<>>, "aliexpress",
                         1).trendScore[2]]
FirstRunResult ==
  [startedAt |-> 1, completedAt |-> 3,
   sources |-> <<[source |-> "aliexpress", fetched |-> 1, upserted |-> 1,
                  newTrends |-> 1, errors |-> 0],
                 NewResult("tiktok")>>,
   totalNew |-> 1, totalUpserted |-> 1, totalErrors |-> 0]

\* After that run aliexpress lists more products than one batch holds, the
\* first of them the product already stored.  One more run is considered.
InitBatches ==
  /\ isRunning = FALSE
  /\ lastRunAt = <<3>>
  /\ sources = BuiltinSources
  /\ trends = <<FirstScored>>
  /\ priceSnapshots = <<SnapshotData(FirstInserted, FirstProduct, 2)>>
  /\ events = <<FirstInserted>>
  /\ feed = [s \in SourceNames |->
               IF s = "aliexpress" THEN BulkFeed(s) ELSE <<>>]
  /\ now = 3
  /\ act = [r \in Activations |-> Idle]
  /\ lastReturn = <<[status |-> "completed", result |-> FirstRunResult]>>
  /\ subscribers = <<"log">>
  /\ cron = Booted
  /\ call = <<>>
  /\ ret = <<>>
  /\ runsStarted = MaxRuns - 1
  /\ failures = 0
  /\ feedChanges = 0

SpecBatches == InitBatches /\ [][Next]_vars

\* The state after two runs in which aliexpress listed the product of
\* RawFree, first at 5.00 and then for free: one row with velocity -100.00,
\* two snapshots.
FreeProduct == normalizeProduct(RawFree("aliexpress")).product
PaidProduct == [FreeProduct EXCEPT !.price = 5000]
PaidInserted == InsertedTrend(1, TrendData(PaidProduct, 2))
FreeUpdated ==
  [UpdatedTrend(PaidInserted, TrendData(FreeProduct, 4)) EXCEPT
     !.priceVelocity = <<-10000>>,
     !.trendScore =
        calculateTrendScore(Num(BASE_TREND_SCORE), <<-10000>>, "aliexpress",
                            2).trendScore[2]]
SecondRunResult ==
  [startedAt |-> 3, completedAt |-> 5,
   sources |-> <<[source |-> "aliexpress", fetched |-> 1, upserted |-> 1,
                  newTrends |-> 0, errors |-> 0],
                 NewResult("tiktok")>>,
   totalNew |-> 0, totalUpserted |-> 1, totalErrors |-> 0]

InitHistory ==
  /\ isRunning = FALSE
  /\ lastRunAt = <<5>>
  /\ sources = BuiltinSources
  /\ trends = <<FreeUpdated>>
  /\ priceSnapshots = <<SnapshotData(PaidInserted, PaidProduct, 2),
                        SnapshotData(PaidInserted, FreeProduct, 4)>>
  /\ events = <<PaidInserted>>
  /\ feed \in [SourceNames -> UNION {Feeds(s) : s \in SourceNames}]
  /\ \A s \in SourceNames : feed[s] \in Feeds(s)
  /\ now = 5
  /\ act = [r \in Activations |-> Idle]
  /\ lastReturn = <<[status |-> "completed", result |-> SecondRunResult]>>
  /\ subscribers = <<"log">>
  /\ cron = Booted
  /\ call = <<>>
  /\ ret = <<>>
  /\ runsStarted = 0
  /\ failures = 0
  /\ feedChanges = 0

\* the pipeline on a database that has a price history
SpecHistory == InitHistory /\ [][Next]_vars

\* ------------------------------------- direct calls of the scoring functions
\* the scoring inputs of direct calls
RawScores ==
  {Absent, NaN} \cup {Num(n) : n \in (0 - ScoreOvershoot)..(100 + ScoreOvershoot)}
Velocities ==
  {<<>>} \cup {<<v>> : v \in {-5000, -2001, -2000, -1999, -110, -1, 0, 1, 425,
                              1999, 2000, 2001, 5000}}
Platforms ==
  {Undefined, "", "aliexpress", "tiktok", "temu", "shopify", "onchain",
   "AliExpress", "ebay", "constructor"}
SnapshotCounts == {0, 1, 2, 3, 4, 9, 10, 11, 12}
ScoringCalls ==
  [fn : {"calculateTrendScore"}, rawScore : RawScores,
   priceVelocity : Velocities, sourcePlatform : Platforms,
   snapshotCount : SnapshotCounts]

\* the snapshot lists getLastTwoPriceSnapshots can return, prices in cents
Prices == (0..MaxPrice) \cup {800, 801, 1000}
SnapshotLists == SeqsUpTo([price : Prices], 2)
VelocityCalls == [fn : {"velocity"}, snapshots : SnapshotLists]

InitScoring ==
  /\ isRunning = FALSE
  /\ lastRunAt = <<>>
  /\ sources = BuiltinSources
  /\ trends = <<>>
  /\ priceSnapshots = <<>>
  /\ events = <<>>
  /\ feed = [s \in SourceNames |-> <<>>]
  /\ now = 1
  /\ act = [r \in Activations |-> Idle]
  /\ lastReturn = <<>>
  /\ subscribers = <<"log">>
  /\ cron = Booted
  /\ call \in ScoringCalls \cup VelocityCalls
  /\ ret = <<>>
  /\ runsStarted = 0
  /\ failures = 0
  /\ feedChanges = 0

\* calculateTrendScore(call) returns
CallCalculateTrendScore ==
  /\ call.fn = "calculateTrendScore"
  /\ ret = <<>>
  /\ ret' = <<calculateTrendScore(call.rawScore, call.priceVelocity,
                                  call.sourcePlatform, call.snapshotCount)>>
  /\ UNCHANGED <<isRunning, lastRunAt, sources, cron, trends, priceSnapshots, events,
                 feed, now, act, lastReturn, subscribers, call, runsStarted,
                 failures, feedChanges>>

\* the velocity block of computeVelocityAndScore is through
CallVelocity ==
  /\ call.fn = "velocity"
  /\ ret = <<>>
  /\ \E velocity \in Velocity(call.snapshots) : ret' = <<velocity>>
  /\ UNCHANGED <<isRunning, lastRunAt, sources, cron, trends, priceSnapshots, events,
                 feed, now, act, lastReturn, subscribers, call, runsStarted,
                 failures, feedChanges>>

NextScoring == CallCalculateTrendScore \/ CallVelocity

SpecScoring == InitScoring /\ [][NextScoring]_vars

\* ===================================================================== claims
\* the activations of triggerIngestion whose run is in progress
Running == {r \in Activations : act[r].pc # "idle"}

Skipped == <<[status |-> "skipped", reason |-> "already_running"]>>

\* C1: at most one ingestion run is in progress at any time, and a call of
\* triggerIngestion that arrives while isRunning is true returns
\* {status: "skipped", reason: "already_running"} without starting or
\* queueing a run or touching the tables.
C1_SingleRun ==
  /\ [](Cardinality(Running) <= 1)
  /\ [][(isRunning /\ triggerIngestion) =>
          /\ lastReturn' = Skipped
          /\ UNCHANGED <<act, runsStarted, isRunning, trends, priceSnapshots>>]_vars

\* a call arrived during a run and was skipped
C1_Witness ==
  /\ isRunning
  /\ Cardinality(Running) = 1
  /\ lastReturn = Skipped

\* C2: whenever a triggerIngestion call that set isRunning returns (its run
\* completed or threw), isRunning is false again; the guard is held only
\* while a run executes, so the next call starts a run and is not skipped.
C2_GuardReleased ==
  /\ [][\A r \in Activations :
          (act[r].pc # "idle" /\ act'[r].pc = "idle") => ~isRunning']_vars
  /\ [](Running = {} => ~isRunning)
  /\ [][(Running = {} /\ runsStarted < MaxRuns /\ triggerIngestion) =>
          (Running' # {} /\ lastReturn' # Skipped)]_vars

\* a run threw, and the next call started a run
C2_Witness ==
  /\ lastReturn # <<>>
  /\ lastReturn[1].status = "failed"
  /\ Running # {}
  /\ runsStarted = 2

\* C3: no two Trend rows share the same (externalId, sourcePlatform) pair.
C3_UniquePair ==
  \A k1, k2 \in DOMAIN trends :
    (/\ trends[k1].externalId = trends[k2].externalId
     /\ trends[k1].sourcePlatform = trends[k2].sourcePlatform) => k1 = k2

\* a second run upserted two existing rows and inserted none
C3_Witness ==
  /\ Len(trends) >= 2
  /\ lastReturn # <<>>
  /\ lastReturn[1].status = "completed"
  /\ lastReturn[1].result.totalUpserted >= 2
  /\ lastReturn[1].result.totalNew = 0

\* ---- what a fetched list is meant to yield, stated on the list itself
Accepted(raw) == normalizeProduct(raw).kind = "ok"
Rejects(raw) == normalizeProduct(raw).kind = "null"
KeyOf(raw) == DedupKey(normalizeProduct(raw).product)

\* raws[k] is accepted and no earlier accepted record has its key
FirstOccurrence(raws, k) ==
  /\ Accepted(raws[k])
  /\ \A m \in 1..(k - 1) : Accepted(raws[m]) => KeyOf(raws[m]) # KeyOf(raws[k])

\* the products of the first occurrences among raws[1..k], in fetch order
RECURSIVE Kept(_, _)
Kept(raws, k) ==
  IF k = 0 THEN <<>>
  ELSE Kept(raws, k - 1) \o
       (IF FirstOccurrence(raws, k) THEN <<normalizeProduct(raws[k]).product>>
        ELSE <<>>)

NumRejected(raws) == Cardinality({k \in DOMAIN raws : Rejects(raws[k])})

\* the last call of triggerIngestion returned a completed run
LastCompleted == lastReturn # <<>> /\ lastReturn[1].status = "completed"

\* every run so far has returned, the marketplaces never changed their
\* listings and no fetch or storage call has thrown
CleanRuns(n) ==
  /\ runsStarted = n
  /\ Running = {}
  /\ LastCompleted
  /\ feedChanges = 0
  /\ failures = 0

\* the (externalId, source) pairs of the products the current listings yield
FeedPairs ==
  UNION {{<<Kept(feed[s], Len(feed[s]))[k].externalId, s>> :
            k \in DOMAIN Kept(feed[s], Len(feed[s]))} : s \in SourceNames}

\* C4: after N >= 1 runs in sequence over an unchanged feed without failures
\* there is exactly one Trend row per distinct (externalId, source) of the
\* feed and no other row, rows are created only by the first run (newTrends
\* is 0 in every source result of a later run), and every run has appended
\* exactly one snapshot per trend.
C4_Idempotent ==
  \A n \in 1..MaxRuns :
    CleanRuns(n) =>
      /\ \A pair \in FeedPairs : Cardinality(MatchingTrends(pair[1], pair[2])) = 1
      /\ Len(trends) = Cardinality(FeedPairs)
      /\ \A k \in DOMAIN trends : getSnapshotCount(trends[k].id) = n
      /\ Len(priceSnapshots) = n * Cardinality(FeedPairs)
      /\ LET result == lastReturn[1].result
         IN /\ result.totalUpserted = Cardinality(FeedPairs)
            /\ n = 1 => result.totalNew = Cardinality(FeedPairs)
            /\ n >= 2 => /\ result.totalNew = 0
                         /\ \A k \in DOMAIN result.sources :
                              result.sources[k].newTrends = 0

\* two clean runs over three products
C4_Witness ==
  /\ CleanRuns(2)
  /\ Len(trends) = 3
  /\ Len(priceSnapshots) = 6

\* the activations that are inside processProduct
ItemPcs == {"select", "write", "snapshot", "lastTwo", "velocity", "count", "score"}
Processing == {r \in Activations : act[r].pc \in ItemPcs}

RECURSIVE PricesOf(_)
PricesOf(products) ==
  IF products = <<>> THEN <<>>
  ELSE <<ToFixed2(Head(products).price)>> \o PricesOf(Tail(products))

RECURSIVE KeptPrices(_)
\* the snapshot prices a run over the current listings appends, source by source
KeptPrices(k) ==
  IF k = 0 THEN <<>>
  ELSE KeptPrices(k - 1) \o
       PricesOf(Kept(feed[sources[k]], Len(feed[sources[k]])))

\* C5: within one fetch, records that normalize to the same key
\* source:externalId are deduplicated: the products handed to processing are
\* exactly the first occurrences, in fetch order, each at most once; a later
\* occurrence is not upserted, not snapshotted and not counted as an error
\* (a clean first run appends one snapshot per first occurrence, with the
\* first occurrence's price, and counts only the rejected records as errors).
C5_Dedup ==
  /\ \A r \in Processing :
       LET a == act[r]
       IN /\ a.normalized = Kept(a.rawProducts, Len(a.rawProducts))
          /\ \A m, n \in DOMAIN a.normalized :
               DedupKey(a.normalized[m]) = DedupKey(a.normalized[n]) => m = n
          /\ a.result.upserted <= a.i + a.j
          /\ failures = 0 => a.result.errors = NumRejected(a.rawProducts)
  /\ CleanRuns(1) =>
       /\ [k \in DOMAIN priceSnapshots |-> priceSnapshots[k].price]
            = KeptPrices(Len(sources))
       /\ \A k \in DOMAIN sources :
            LET res == lastReturn[1].result.sources[k]
                raws == feed[sources[k]]
            IN /\ res.fetched = Len(raws)
               /\ res.upserted = Len(Kept(raws, Len(raws)))
               /\ res.errors = NumRejected(raws)

\* a fetch returned the product twice; the first run kept one row, one
\* snapshot at the first occurrence's price, and no error
C5_Witness ==
  /\ CleanRuns(1)
  /\ feed["aliexpress"] = <<RawListing("aliexpress"), RawRelisted("aliexpress")>>
  /\ feed["tiktok"] = <<>>
  /\ Len(trends) = 1
  /\ trends[1].name = "Neck Fan"
  /\ Len(priceSnapshots) = 1
  /\ priceSnapshots[1].price = 1000
  /\ lastReturn[1].result.sources[1].fetched = 2
  /\ lastReturn[1].result.totalErrors = 0

\* C6: price snapshots are append-only: no step modifies or removes an
\* existing PriceSnapshot; the table only grows at its end.
C6_AppendOnly ==
  [][/\ Len(priceSnapshots') >= Len(priceSnapshots)
     /\ SubSeq(priceSnapshots', 1, Len(priceSnapshots)) = priceSnapshots]_vars

\* a trend has two snapshots, the older one still in place
C6_Witness ==
  \E m, n \in DOMAIN priceSnapshots :
    /\ m < n
    /\ priceSnapshots[m].trendId = priceSnapshots[n].trendId
    /\ priceSnapshots[m].recordedAt < priceSnapshots[n].recordedAt
    /\ priceSnapshots[m].price # priceSnapshots[n].price

\* processProduct of activation r is over in this step (it returned or threw)
ItemEnds(r) ==
  /\ act[r].pc \in ItemPcs
  /\ \/ act'[r].pc \notin ItemPcs
     \/ act'[r].i + act'[r].j # act[r].i + act[r].j

\* the upsert of the product being processed has succeeded
Upserted(a) == a.trend # <<>>

\* C7 as stated: for every product whose Trend upsert succeeded, exactly one
\* PriceSnapshot has been appended when its processing is over.
C7_ExactlyOneSnapshot ==
  [][\A r \in Activations :
       (ItemEnds(r) /\ Upserted(act[r])) =>
          Len(priceSnapshots') = act[r].snapsBefore + 1]_vars

\* C7 amended: for every product whose Trend upsert succeeded, no snapshot
\* is appended before createPriceSnapshot is called, and once that call has
\* returned exactly one snapshot has been appended in this run, on the
\* upserted trend, with the product's source and its fetched price to two
\* decimals, whether the trend was new or already existed; when the call
\* throws, no snapshot is appended and the product is counted as an error.
C7_SnapshotPerProduct ==
  /\ \A r \in Processing :
       LET a == act[r]
           product == CurrentProduct(a)
       IN /\ a.pc \in {"select", "write", "snapshot"} =>
               Len(priceSnapshots) = a.snapsBefore
          /\ a.pc \in {"lastTwo", "velocity", "count", "score"} =>
               /\ Upserted(a)
               /\ Len(priceSnapshots) = a.snapsBefore + 1
               /\ LET sn == priceSnapshots[Len(priceSnapshots)]
                  IN /\ sn.trendId = a.trend[1].id
                     /\ sn.source = product.source
                     /\ sn.price = ToFixed2(product.price)
                     /\ trends[sn.trendId].externalId = product.externalId
                     /\ trends[sn.trendId].sourcePlatform = product.source

\* a product whose trend already existed got its snapshot, rounded to cents
C7_Witness ==
  \E r \in Processing :
    /\ act[r].pc = "lastTwo"
    /\ ~act[r].isNew
    /\ CurrentProduct(act[r]).price = 7996
    /\ priceSnapshots[Len(priceSnapshots)].price = 800
    /\ Len(priceSnapshots) = act[r].snapsBefore + 1

\* the row a trend:discovered event carried, as it is in the table now
RowOf(event) == trends[event.id]

\* C8: an upsert that finds an existing row changes only name, imageUrl,
\* category, productUrl and trendScore and leaves detectedAt, externalId,
\* sourcePlatform, description and priceVelocity unchanged; no step of a run
\* changes detectedAt, externalId, sourcePlatform or description of a row,
\* so detectedAt stays the value written when the row was inserted.
C8_DetectedAtSetOnce ==
  /\ [][\A k \in DOMAIN trends :
          /\ k \in DOMAIN trends'
          /\ trends'[k].detectedAt = trends[k].detectedAt
          /\ trends'[k].externalId = trends[k].externalId
          /\ trends'[k].sourcePlatform = trends[k].sourcePlatform
          /\ trends'[k].description = trends[k].description
          /\ trends'[k].id = trends[k].id]_vars
  /\ [][\A r \in Activations :
          (act[r].pc = "write" /\ act'[r].pc = "snapshot") =>
             \A k \in DOMAIN trends :
               trends'[k].priceVelocity = trends[k].priceVelocity]_vars
  /\ [](\A e \in DOMAIN events :
          /\ RowOf(events[e]).detectedAt = events[e].detectedAt
          /\ RowOf(events[e]).externalId = events[e].externalId
          /\ RowOf(events[e]).sourcePlatform = events[e].sourcePlatform
          /\ RowOf(events[e]).description = events[e].description)

\* a later run has just updated an existing row: new name, category and
\* urls, the old detectedAt, description and velocity
C8_Witness ==
  \E r \in Processing :
    LET a == act[r]
    IN /\ a.pc = "snapshot"
       /\ ~a.isNew
       /\ a.at > a.trend[1].detectedAt
       /\ trends[a.trend[1].id] = a.trend[1]
       /\ a.trend[1].name = "Neck Fan v2"
       /\ a.trend[1].category = "Other"
       /\ a.trend[1].imageUrl = ""
       /\ a.trend[1].description = <<"Trending on", "aliexpress", "USD", 1000>>
       /\ \E e \in DOMAIN events :
            /\ events[e].id = a.trend[1].id
            /\ events[e].name = "Neck Fan"
            /\ events[e].detectedAt = a.trend[1].detectedAt

\* the fetch() awaited by activation r rejects in this step
FetchThrows(r) == act[r].pc = "fetch" /\ failures' = failures + 1

\* the IngestionResult recorded for the k-th source once ingestSource returned
RecordedResult(r, k) ==
  IF act'[r].pc = "idle" THEN lastReturn'[1].result.sources[k]
  ELSE act'[r].results[k]

\* C9: when an adapter's fetch() fails, that source's result records exactly
\* one error with fetched = upserted = newTrends = 0, no trend or snapshot
\* is written for that source, and the run goes on with the next registered
\* source (or, after the last one, returns a completed run with one result
\* per registered source).
C9_FetchFailureIsolated ==
  [][\A r \in Activations :
       FetchThrows(r) =>
         LET k == act[r].src
         IN /\ trends' = trends
            /\ priceSnapshots' = priceSnapshots
            /\ events' = events
            /\ k < Len(sources) =>
                 /\ act'[r].pc = "fetch"
                 /\ act'[r].src = k + 1
                 /\ Len(act'[r].results) = k
            /\ k = Len(sources) =>
                 /\ act'[r].pc = "idle"
                 /\ lastReturn'[1].status = "completed"
                 /\ Len(lastReturn'[1].result.sources) = Len(sources)
            /\ RecordedResult(r, k) =
                 [source |-> sources[k], fetched |-> 0, upserted |-> 0,
                  newTrends |-> 0, errors |-> 1]]_vars

\* the first source's fetch failed; the second source was still processed
C9_Witness ==
  /\ LastCompleted
  /\ lastReturn[1].result.sources[1].errors = 1
  /\ lastReturn[1].result.sources[1].fetched = 0
  /\ feed["aliexpress"] # <<>>
  /\ lastReturn[1].result.sources[2].upserted = 1
  /\ Len(trends) = 1
  /\ trends[1].sourcePlatform = "tiktok"

\* the errors of the item-level catch (processBatch) among a's errors
ItemErrors(a) == a.result.errors - NumRejected(a.rawProducts)

\* C10: each raw record rejected by the Normalizer adds exactly one to the
\* source's errors counter (the other errors are the items that threw), is
\* never upserted or snapshotted (every product processed, every Trend row
\* and every snapshot stems from an accepted record), and does not stop the
\* other records of the fetch from being processed.
C10_RejectionIsolated ==
  /\ \A r \in Processing :
       LET a == act[r]
           raws == a.rawProducts
       IN /\ ItemErrors(a) >= 0
          /\ ItemErrors(a) <= failures
          /\ ItemErrors(a) <= a.i + a.j
          /\ a.result.upserted <= a.i + a.j
          /\ a.result.fetched = Len(raws)
          /\ \A n \in DOMAIN a.normalized :
               \E k \in DOMAIN raws :
                 Accepted(raws[k]) /\ a.normalized[n] = normalizeProduct(raws[k]).product
          /\ \A k \in DOMAIN raws :
               Accepted(raws[k]) =>
                 \E n \in DOMAIN a.normalized :
                   DedupKey(a.normalized[n]) = KeyOf(raws[k])
  /\ \A k \in DOMAIN trends :
       \E raw \in RawListings(trends[k].sourcePlatform) :
         Accepted(raw) /\ normalizeProduct(raw).product.externalId = trends[k].externalId
  /\ \A k \in DOMAIN priceSnapshots :
       \E raw \in RawListings(priceSnapshots[k].source) :
         /\ Accepted(raw)
         /\ ToFixed2(normalizeProduct(raw).product.price) = priceSnapshots[k].price
         /\ normalizeProduct(raw).product.externalId
              = trends[priceSnapshots[k].trendId].externalId

\* a fetch began with a record without a title; the record after it has been
\* upserted and snapshotted, and the source counts one error
C10_Witness ==
  \E r \in Processing :
    LET a == act[r]
    IN /\ a.rawProducts = <<RawNoTitle("aliexpress"), RawFree("aliexpress")>>
       /\ a.pc = "lastTwo"
       /\ a.result.errors = 1
       /\ a.result.fetched = 2
       /\ a.result.upserted = 1
       /\ trends[a.trend[1].id].externalId = "b"

\* a storage call awaited by activation r while it processes a product
\* rejects in this step
PersistenceThrows(r) == act[r].pc \in ItemPcs /\ failures' = failures + 1

\* C11: when a persistence call (upsert select or write, snapshot append,
\* snapshot read, velocity update, snapshot count, score update) throws while
\* a product is processed, the run does not fail, the source's errors counter
\* grows by exactly one with the other counters unchanged, and processing
\* goes on with the next product of the batch, else the first product of
\* the next batch, else the next source, else the run completes.
C11_ItemFailureIsolated ==
  [][\A r \in Activations :
       PersistenceThrows(r) =>
         LET a == act[r]
             b == act'[r]
             counted == [a.result EXCEPT !.errors = @ + 1]
             pos == a.i + a.j
         IN /\ pos < Len(a.normalized) =>
                 /\ b.pc = "select"
                 /\ b.src = a.src
                 /\ b.normalized = a.normalized
                 /\ b.i + b.j = pos + 1
                 /\ b.i = BATCH_SIZE * (pos \div BATCH_SIZE)
                 /\ b.result = counted
                 /\ b.results = a.results
            /\ (pos = Len(a.normalized) /\ a.src < Len(sources)) =>
                 /\ b.pc = "fetch"
                 /\ b.src = a.src + 1
                 /\ b.results = Append(a.results, counted)
            /\ (pos = Len(a.normalized) /\ a.src = Len(sources)) =>
                 /\ b.pc = "idle"
                 /\ lastReturn'[1].status = "completed"
                 /\ lastReturn'[1].result.sources = Append(a.results, counted)
            /\ Len(trends') = Len(trends)
            /\ priceSnapshots' = priceSnapshots]_vars

\* the score update of the last product of the first batch threw; the first
\* product of the second batch has been upserted and snapshotted
C11_Witness ==
  \E r \in Activations :
    LET a == act[r]
    IN /\ a.i = BATCH_SIZE
       /\ a.j = 1
       /\ a.pc = "lastTwo"
       /\ a.result.errors = 1
       /\ a.result.upserted = BATCH_SIZE + 1
       /\ trends[BATCH_SIZE].trendScore = BASE_TREND_SCORE
       /\ Len(priceSnapshots) = BATCH_SIZE + 2

\* runIngestion, resumed by activation r after fetch() returned, throws in
\* this step: normalizeProduct raises on a record of the fetched list
RunThrows(r) ==
  /\ act[r].pc = "fetch"
  /\ act'[r] # act[r]
  /\ failures' = failures
  /\ NormalizeAndFilter(feed[sources[act[r].src]]).threw

\* C12: triggerIngestion never raises to its caller: every call returns a
\* result whose status is skipped, completed or failed, and when
\* runIngestion throws the call returns status "failed" with the error text.
C12_NeverRaises ==
  /\ [](lastReturn # <<>> =>
          lastReturn[1].status \in {"skipped", "completed", "failed"})
  /\ [][\A r \in Activations :
          RunThrows(r) =>
            /\ act'[r].pc = "idle"
            /\ lastReturn' = <<[status |-> "failed", error |-> ErrorText]>>
            /\ lastRunAt' = lastRunAt]_vars

\* the first source had been ingested when a record of the second made
\* runIngestion throw; the call returned the failed result
C12_Witness ==
  /\ lastReturn = <<[status |-> "failed", error |-> ErrorText]>>
  /\ Running = {}
  /\ runsStarted = 1
  /\ Len(trends) >= 1
  /\ lastRunAt = <<>>

\* C13: "trend:discovered" is emitted exactly once for each Trend row
\* created, carrying that row as it was inserted, and is never emitted for
\* an upsert that updated an existing row: the k-th event is the k-th row
\* of the table as created, and there are as many events as rows.
C13_EmittedOncePerCreation ==
  /\ Len(events) = Len(trends)
  /\ \A k \in DOMAIN events :
       /\ events[k].id = k
       /\ events[k].externalId = trends[k].externalId
       /\ events[k].sourcePlatform = trends[k].sourcePlatform
       /\ events[k].description = trends[k].description
       /\ events[k].detectedAt = trends[k].detectedAt
       /\ events[k].trendScore = BASE_TREND_SCORE
       /\ events[k].priceVelocity = <<>>

\* a second run updated the row the first run had created: one event
C13_Witness ==
  /\ LastCompleted
  /\ runsStarted = 2
  /\ lastReturn[1].result.totalUpserted = 1
  /\ lastReturn[1].result.totalNew = 0
  /\ Len(events) = 1
  /\ trends[1].name = "Neck Fan v2"
  /\ events[1].name = "Neck Fan"

\* C14: whether or not a subscriber of the new-trend event throws, the
\* product that created the trend goes on to its snapshot (and from there to
\* velocity and score) and the source's errors counter is as with no
\* subscriber: the step that inserts a trend is followed by the snapshot
\* call and counts no error.
C14_ConsumerIndependent ==
  [][\A r \in Activations :
       (act[r].pc = "write" /\ Len(trends') = Len(trends) + 1) =>
         /\ act'[r].pc = "snapshot"
         /\ act'[r].result.errors = act[r].result.errors]_vars

\* a velocity computation that has returned
VelocityDone == call # <<>> /\ call.fn = "velocity" /\ ret # <<>>

\* C15: the velocity is undefined when there are fewer than two snapshots or
\* the older of the two most recent has price 0; otherwise it is
\* ((current - previous) / previous) * 100 rounded to two decimals, that is
\* a hundredth nearest to the exact quotient; previous = 10 and current = 8
\* give -20.00.
C15_Velocity ==
  VelocityDone =>
    LET sn == call.snapshots
        v == ret[1]
    IN /\ (Len(sn) < 2 \/ sn[Len(sn)].price = 0) <=> v = <<>>
       /\ v # <<>> =>
            LET current == sn[1].price
                previous == sn[2].price
            IN 2 * Abs(v[1] * previous - (current - previous) * 10000) <= previous
       /\ (Len(sn) = 2 /\ sn[1].price = 800 /\ sn[2].price = 1000) => v = <<-2000>>

\* previous = 3, current = 5 cents: 66.67 percent
C15_Witness ==
  /\ VelocityDone
  /\ call.snapshots = <<[price |-> 5], [price |-> 3]>>
  /\ ret = <<<<6667>>>>

\* C16: when velocity is undefined for a processed product, no velocity
\* write is performed and the trend's persisted priceVelocity is what it
\* was: updateTrendVelocity is reached only with a defined velocity, a row's
\* priceVelocity changes only in that call, and while the score is
\* recomputed with an undefined velocity the row still holds the
\* priceVelocity the upsert returned.
C16_UndefinedVelocityNotWritten ==
  /\ [](\A r \in Activations :
          /\ act[r].pc = "velocity" => act[r].velocity # <<>>
          /\ (act[r].pc \in {"count", "score"} /\ act[r].velocity = <<>>) =>
               trends[act[r].trend[1].id].priceVelocity
                 = act[r].trend[1].priceVelocity)
  /\ [][\A k \in DOMAIN trends :
          trends'[k].priceVelocity # trends[k].priceVelocity =>
            \E r \in Activations :
              /\ act[r].pc = "velocity"
              /\ act[r].trend[1].id = k
              /\ act[r].velocity # <<>>
              /\ trends'[k].priceVelocity = act[r].velocity]_vars
  /\ [][\A r \in Activations :
          (act[r].pc = "write" /\ act'[r].pc = "snapshot") =>
            act'[r].trend[1].priceVelocity =
              (IF act[r].existing = <<>> THEN <<>>
               ELSE trends[act[r].existing[1]].priceVelocity)]_vars

\* the free product is processed again: its older snapshot has price 0, the
\* velocity is undefined and the row keeps -100.00 while it is rescored
C16_Witness ==
  \E r \in Activations :
    /\ act[r].pc = "score"
    /\ act[r].velocity = <<>>
    /\ getSnapshotCount(act[r].trend[1].id) = 3
    /\ trends[act[r].trend[1].id].priceVelocity = <<-10000>>

\* a call of calculateTrendScore that has returned
ScoreDone == call # <<>> /\ call.fn = "calculateTrendScore" /\ ret # <<>>

\* C17: for every scoring input calculateTrendScore returns an integer
\* trendScore with 0 <= trendScore <= 100 and a confidenceBand in
\* {low, medium, high}.
C17_ScoreInRange ==
  ScoreDone =>
    /\ ret[1].trendScore[1] = "num"
    /\ ret[1].trendScore[2] \in 0..100
    /\ ret[1].confidenceBand \in {"low", "medium", "high"}

\* C18: confidenceBand is "high" if and only if snapshotCount >= 10 and a
\* velocity is defined, "medium" if and only if snapshotCount >= 3 and the
\* band is not high, and "low" otherwise; rawScore and sourcePlatform play
\* no part.
C18_ConfidenceBand ==
  ScoreDone =>
    LET band == ret[1].confidenceBand
        defined == call.priceVelocity # <<>>
        n == call.snapshotCount
    IN /\ band = "high" <=> (n >= 10 /\ defined)
       /\ band = "medium" <=> (n >= 3 /\ band # "high")
       /\ band = "low" <=> (n < 3)

\* twelve snapshots but no velocity, scored for an unknown platform with a
\* raw score above 100: medium
C18_Witness ==
  /\ ScoreDone
  /\ call.snapshotCount = 12
  /\ call.priceVelocity = <<>>
  /\ call.rawScore = Num(101)
  /\ call.sourcePlatform = "ebay"
  /\ ret[1].confidenceBand = "medium"

\* the call of the worked example
ExampleCall ==
  [fn |-> "calculateTrendScore", rawScore |-> Num(50), priceVelocity |-> <<425>>,
   sourcePlatform |-> "aliexpress", snapshotCount |-> 12]

\* C19 as stated: calculateTrendScore({rawScore: 50, priceVelocity: "4.25",
\* sourcePlatform: "aliexpress", snapshotCount: 12}) returns trendScore 41 and
\* confidenceBand "high".
C19_Example41 ==
  (ScoreDone /\ call = ExampleCall) =>
    ret[1] = [trendScore |-> Num(41), confidenceBand |-> "high"]

\* C19, amended: that call returns trendScore 40 (27.5 + 9.75 + 3.1875 =
\* 40.4375, rounded) and confidenceBand "high".
C19_Example40 ==
  (ScoreDone /\ call = ExampleCall) =>
    ret[1] = [trendScore |-> Num(40), confidenceBand |-> "high"]

\* the call of the worked example has returned
C19_Witness == ScoreDone /\ call = ExampleCall /\ ret[1].trendScore[1] = "num"

\* the weight the formula of the scoring engine gives a platform, in
\* hundredths: the table's weight, 0.10 for a platform not in the table
TableWeight(platform) ==
  LET key == IF platform = Undefined THEN "" ELSE ToLowerCase(platform)
  IN CASE key = "aliexpress" -> 30
       [] key = "tiktok" -> 25
       [] key \in {"temu", "shopify", "onchain"} -> 15
       [] OTHER -> 10

\* C20: for every input trendScore equals
\* round(clamp(base*0.55 + base*w*0.65 + clamp(velocity*0.75, -15, 15), 0, 100))
\* with base the rawScore clamped to [0, 100] (50 when absent), velocity 0
\* when absent, and w the table weight of the platform or 0.10 for any
\* platform not in the table.  (Not a number where rawScore is not a number.)
C20_ScoreFormula ==
  ScoreDone =>
    IF call.rawScore = NaN THEN ret[1].trendScore = NaN
    ELSE LET base == IF call.rawScore = Absent THEN 50
                     ELSE Max(0, Min(100, call.rawScore[2]))
             velocity == IF call.priceVelocity = <<>> THEN 0
                         ELSE call.priceVelocity[1]
             w == TableWeight(call.sourcePlatform)
             vc == Max(-150000, Min(150000, velocity * 75))
             raw == base * 5500 + base * w * 65 + vc
             clamped == Max(0, Min(1000000, raw))
         IN /\ ret[1].trendScore[1] = "num"
            /\ 10000 * ret[1].trendScore[2] - 5000 <= clamped
            /\ clamped < 10000 * ret[1].trendScore[2] + 5000

\* ---------------------------------------------------------------------
\* Price normalisation: normalizePrices, called by getTrendPrices with the
\* snapshots of one trend, oldest first
\* ---------------------------------------------------------------------

MaxSnapshots == 3

\* the price texts the program stores (toFixed(2) of a price that is finite
\* and not negative), named by the cents they spell
StoredPrices == {0, 1, 29, 200, 300, 700, 1000, 1500, 2000}
SnapshotHistories == SeqsUpTo([price : StoredPrices], MaxSnapshots)
PriceCalls == [fn : {"normalizePrices"}, snapshots : SnapshotHistories]

\* parseFloat of a stored price text: the number it spells, in cents
parseFloat(price) == Num(price)

\* Number.isFinite(p) && p >= 0
ValidPrice(p) == p[1] = "num" /\ p[2] >= 0

\* snapshots.map(parseFloat).filter(valid), as plain numbers of cents
ParsedPrices(snapshots) ==
  LET parsed == [k \in 1..Len(snapshots) |-> parseFloat(snapshots[k].price)]
      valid == SelectSeq(parsed, ValidPrice)
  IN [k \in 1..Len(valid) |-> valid[k][2]]

RECURSIVE MathMin(_)
MathMin(prices) ==
  IF Len(prices) = 1 THEN prices[1]
  ELSE Min(prices[1], MathMin(Tail(prices)))

RECURSIVE MathMax(_)
MathMax(prices) ==
  IF Len(prices) = 1 THEN prices[1]
  ELSE Max(prices[1], MathMax(Tail(prices)))

OldestPrice(prices) == prices[1]

\* prices[prices.length - 1]
CurrentPrice(prices) == prices[Len(prices)]

\* Math.round(((current - min) / range) * 100): the quotient is a double, so
\* at an exact half the product lands on either side of it
\* (0.29 / 2 * 100 is 14.499999999999998)
RoundedPercentile(current, min, range) ==
  {RoundDiv(100 * (current - min), range),
   RoundHalfDown(100 * (current - min), range)}

LabelStrict(percentile) ==
  IF percentile < 30 THEN "cheap"
  ELSE IF percentile > 70 THEN "expensive"
  ELSE "neutral"

LabelOf(percentile) ==
  IF percentile <= 30 THEN "cheap"
  ELSE IF percentile >= 70 THEN "expensive"
  ELSE "neutral"

\* the results normalizePrices(snapshots) can return
normalizePrices(snapshots) ==
  IF Len(snapshots) = 0 THEN {[percentile |-> 50, label |-> "neutral"]}
  ELSE LET prices == ParsedPrices(snapshots)
       IN IF Len(prices) = 0 THEN {[percentile |-> 50, label |-> "neutral"]}
          ELSE LET min == MathMin(prices)
                   max == MathMax(prices)
                   current == CurrentPrice(prices)
                   range == max - min
                   percentiles == IF range = 0 THEN {50}
                                  ELSE RoundedPercentile(current, min, range)
               IN {[percentile |-> p, label |-> LabelOf(p)] : p \in percentiles}

InitPrices ==
  /\ isRunning = FALSE
  /\ lastRunAt = <<>>
  /\ sources = BuiltinSources
  /\ trends = <<>>
  /\ priceSnapshots = <<>>
  /\ events = <<>>
  /\ feed = [s \in SourceNames |-> <<>>]
  /\ now = 1
  /\ act = [r \in Activations |-> Idle]
  /\ lastReturn = <<>>
  /\ subscribers = <<"log">>
  /\ cron = Booted
  /\ call \in PriceCalls
  /\ ret = <<>>
  /\ runsStarted = 0
  /\ failures = 0
  /\ feedChanges = 0

\* normalizePrices(call.snapshots) returns
CallNormalizePrices ==
  /\ call.fn = "normalizePrices"
  /\ ret = <<>>
  /\ \E result \in normalizePrices(call.snapshots) : ret' = <<result>>
  /\ UNCHANGED <<isRunning, lastRunAt, sources, cron, trends, priceSnapshots, events,
                 feed, now, act, lastReturn, subscribers, call, runsStarted,
                 failures, feedChanges>>

NextPrices == CallNormalizePrices

SpecPrices == InitPrices /\ [][NextPrices]_vars

PricesDone == call.fn = "normalizePrices" /\ ret # <<>>

\* the prices of the snapshots of the call, in array order
CallPrices == [k \in 1..Len(call.snapshots) |-> call.snapshots[k].price]
Observed == {CallPrices[k] : k \in 1..Len(CallPrices)}
Lowest == CHOOSE m \in Observed : \A p \in Observed : m <= p
Highest == CHOOSE m \in Observed : \A p \in Observed : m >= p

\* C21: normalizePrices returns percentile 50 when the snapshot list is empty
\* or the highest and the lowest observed price are equal; otherwise the
\* percentile is ((current - min) / (max - min)) * 100 rounded to a nearest
\* integer, current being the price of the last snapshot in array order, and
\* lies in 0..100; the prices 10, 20, 15 give 50.
C21_Percentile ==
  PricesDone =>
    /\ ret[1].percentile \in 0..100
    /\ IF Len(call.snapshots) = 0 THEN ret[1].percentile = 50
       ELSE IF Highest = Lowest THEN ret[1].percentile = 50
       ELSE LET current == CallPrices[Len(CallPrices)]
                exact == 100 * (current - Lowest)
                range == Highest - Lowest
            IN /\ 2 * range * ret[1].percentile <= 2 * exact + range
               /\ 2 * exact - range <= 2 * range * ret[1].percentile
    /\ CallPrices = <<1000, 2000, 1500>> => ret[1].percentile = 50

C21_Witness ==
  /\ PricesDone
  /\ CallPrices = <<1000, 2000, 1500>>
  /\ ret[1].percentile = 50

\* C22: the label depends on the returned percentile only: "cheap" when it is
\* at most 30, "expensive" when it is at least 70, "neutral" otherwise; with
\* no snapshots or no price movement it is "neutral".
C22_Label ==
  PricesDone =>
    /\ ret[1].label = "cheap" <=> ret[1].percentile <= 30
    /\ ret[1].label = "expensive" <=> ret[1].percentile >= 70
    /\ ret[1].label = "neutral" <=>
         (30 < ret[1].percentile /\ ret[1].percentile < 70)
    /\ (Len(call.snapshots) = 0 \/ Highest = Lowest) => ret[1].label = "neutral"

C22_Witness ==
  /\ PricesDone
  /\ CallPrices = <<0, 1000, 300>>
  /\ ret[1].percentile = 30
  /\ ret[1].label = "cheap"

\* ---------------------------------------------------------------------
\* The Normalizer called directly on loosely-typed raw candidates
\* ---------------------------------------------------------------------

RECURSIVE Repeat(_, _)
Repeat(c, n) ==
  IF n = 0 THEN ""
  ELSE IF n = 1 THEN c
  ELSE Repeat(c, n \div 2) \o Repeat(c, n - (n \div 2))

\* a padded title of more than MAX_TITLE characters
LongTitle == " " \o Repeat("x", MAX_TITLE + 1) \o " "

\* Infinity, as a raw price
Infinite == <<"inf">>

RawCandidates ==
  [externalId : {Undefined, "", "a", " a"},
   title      : {Undefined, "", "Neck Fan", " Neck Fan v2 ", LongTitle},
   source     : {Undefined, "", "aliexpress"},
   price      : {Absent, NaN, Infinite, Num(-1), Num(0), Num(10000)},
   currency   : {Undefined, "", "usd", "euro", NotAString},
   imageUrl   : {Undefined, "img"},
   productUrl : {Undefined, "url"},
   category   : {Undefined, "", "Electronics", "Gadgets"}]

NormalizeCalls == [fn : {"normalizeProduct"}, raw : RawCandidates]

InitNormalize ==
  /\ isRunning = FALSE
  /\ lastRunAt = <<>>
  /\ sources = BuiltinSources
  /\ trends = <<>>
  /\ priceSnapshots = <<>>
  /\ events = <<>>
  /\ feed = [s \in SourceNames |-> <<>>]
  /\ now = 1
  /\ act = [r \in Activations |-> Idle]
  /\ lastReturn = <<>>
  /\ subscribers = <<"log">>
  /\ cron = Booted
  /\ call \in NormalizeCalls
  /\ ret = <<>>
  /\ runsStarted = 0
  /\ failures = 0
  /\ feedChanges = 0

\* normalizeProduct(call.raw) returns or raises
CallNormalizeProduct ==
  /\ call.fn = "normalizeProduct"
  /\ ret = <<>>
  /\ ret' = <<normalizeProduct(call.raw)>>
  /\ UNCHANGED <<isRunning, lastRunAt, sources, cron, trends, priceSnapshots, events,
                 feed, now, act, lastReturn, subscribers, call, runsStarted,
                 failures, feedChanges>>

NextNormalize == CallNormalizeProduct

SpecNormalize == InitNormalize /\ [][NextNormalize]_vars

NormalizeDone == call.fn = "normalizeProduct" /\ ret # <<>>

\* the candidate lacks a required property, or its price is not a finite
\* number >= 0
Malformed(raw) ==
  \/ raw.externalId \in {Undefined, ""}
  \/ raw.title \in {Undefined, ""}
  \/ raw.source \in {Undefined, ""}
  \/ raw.price = Absent
  \/ raw.price[1] # "num"
  \/ raw.price[2] < 0

\* C23: normalizeProduct rejects a raw candidate exactly when externalId,
\* title, source or price is missing or price does not parse to a finite
\* number >= 0; every other candidate is accepted and yields a fully
\* populated CanonicalProduct.
C23_RejectsIffMalformed ==
  NormalizeDone =>
    /\ ret[1].kind = "null" <=> Malformed(call.raw)
    /\ ~Malformed(call.raw) =>
         /\ ret[1].kind = "ok"
         /\ DOMAIN ret[1].product =
              {"externalId", "title", "source", "price", "currency",
               "imageUrl", "productUrl", "category"}
         /\ \A f \in {"externalId", "title", "source", "currency", "imageUrl",
                      "productUrl", "category"} :
              ret[1].product[f] # Undefined
         /\ ret[1].product.price \in Nat

\* a candidate was accepted
C23_Accepted == NormalizeDone /\ ret[1].kind = "ok"

\* C24: for every loosely-typed raw candidate the Normalizer reports an
\* invalid record by returning the rejection value and never by raising an
\* exception, so that no record of a fetched list aborts the source's batch
\* or the run: runIngestion never throws out of its normalisation loop.
C24_NeverAborts ==
  [][\A r \in Activations : ~RunThrows(r)]_vars

\* C25: every accepted CanonicalProduct has a category of the fixed set (a
\* category outside the set, or none, becomes "Other"), a finite price >= 0,
\* a title of at most 500 characters and a currency of at most 3 characters
\* that is "USD" when the candidate carried none.
C25_AcceptedProduct ==
  C23_Accepted =>
    LET raw == call.raw
        product == ret[1].product
    IN /\ product.category \in VALID_CATEGORIES
       /\ product.category =
            IF raw.category \in VALID_CATEGORIES THEN raw.category ELSE "Other"
       /\ product.price \in Nat
       /\ Len(product.title) <= 500
       /\ Len(product.currency) <= 3
       /\ raw.currency = Undefined => product.currency = "USD"

C25_Witness ==
  /\ C23_Accepted
  /\ call.raw.title = LongTitle
  /\ call.raw.category = "Gadgets"
  /\ call.raw.currency = Undefined
  /\ Len(ret[1].product.title) = 500
  /\ ret[1].product.category = "Other"
  /\ ret[1].product.currency = "USD"

\* ---------------------------------------------------------------------
\* The source registry: adapters registered at run time
\* ---------------------------------------------------------------------

MaxRegistered == 1

\* the adapters a plugin can register, and what their fetch() returns
Registrable == {"temu", "shopify"}
PluginFeed(name) ==
  IF name = "temu" THEN <<RawListing(name), RawNoTitle(name)>> ELSE <<>>

RegisteredFirst(registry, name) == <<name>> \o registry

\* sources.push(source)
Registered(registry, name) == Append(registry, name)

\* registerSource(source)
registerSource ==
  /\ Len(sources) < Len(BuiltinSources) + MaxRegistered
  /\ \E name \in Registrable :
       /\ sources' = Registered(sources, name)
       /\ feed' = (name :> PluginFeed(name)) @@ feed
  /\ UNCHANGED <<isRunning, lastRunAt, cron, trends, priceSnapshots, events,
                 now, act, lastReturn, subscribers, call, ret, runsStarted,
                 failures, feedChanges>>

NextRegistry == Next \/ registerSource

\* the pipeline together with plugins that register adapters
SpecRegistry == Init /\ [][NextRegistry]_vars

\* the sum of counter f over the first n results
RECURSIVE TotalOf(_, _, _)
TotalOf(results, f, n) ==
  IF n = 0 THEN 0 ELSE TotalOf(results, f, n - 1) + results[n][f]

\* the run of activation r returns its result in this step
RunReturns(r) ==
  /\ act[r].pc # "idle"
  /\ act'[r].pc = "idle"
  /\ lastReturn' # <<>>
  /\ lastReturn'[1].status = "completed"

C27_Status ==
  /\ [](isRunning <=> Running # {})
  /\ [][\A r \in Activations :
          RunReturns(r) =>
            lastRunAt' = <<lastReturn'[1].result.completedAt>>]_vars
  /\ [][lastRunAt' # lastRunAt => \E r \in Activations : RunReturns(r)]_vars
  /\ [][(lastReturn' # lastReturn
           /\ lastReturn'[1].status \in {"skipped", "failed"}) =>
          lastRunAt' = lastRunAt]_vars

\* the first run completed and the second failed: lastRunAt is still the
\* completion time of the first
C27_Witness ==
  /\ ~isRunning
  /\ runsStarted = 2
  /\ lastReturn # <<>>
  /\ lastReturn[1].status = "failed"
  /\ lastRunAt # <<>>
  /\ lastRunAt[1] < now

\* C28: a failure reduces the upserted count: every fetched record is
\* counted in at most one of upserted and errors, so that at the end of a
\* run upserted + errors <= fetched for every source whose fetch succeeded
\* (a failed fetch is reported as fetched 0, errors 1).
C28_CountedOnce ==
  (lastReturn # <<>> /\ lastReturn[1].status = "completed") =>
    \A k \in DOMAIN lastReturn[1].result.sources :
      LET result == lastReturn[1].result.sources[k]
      IN (result.fetched > 0 \/ result.errors = 0) =>
           result.upserted + result.errors <= result.fetched

\* ---------------------------------------------------------------------
\* The scheduler: startTrendCron, stopTrendCron, the node-cron task and the
\* startup timer
\* ---------------------------------------------------------------------

MaxCronCalls == 3

TimerIds == 1..MaxCronCalls

\* the startup timers whose callback has not yet called triggerIngestion;
\* each of them is going to call it, so other callers leave it a run
PendingTimers ==
  Cardinality({t \in DOMAIN cron.timers : cron.timers[t].pc # "called"})

\* startTrendCron()
startTrendCron ==
  /\ cron.calls < MaxCronCalls
  /\ IF cron.scheduledTask # <<>>
     THEN /\ cron' = [cron EXCEPT !.calls = @ + 1]
          /\ UNCHANGED subscribers
     ELSE /\ runsStarted + PendingTimers < MaxRuns
          /\ subscribers' = Append(subscribers, "log")
          /\ cron' = [cron EXCEPT !.scheduledTask = <<Len(cron.tasks) + 1>>,
                                  !.tasks = Append(@, TRUE),
                                  !.timers = Append(@, NewTimer),
                                  !.calls = @ + 1]
  /\ UNCHANGED <<isRunning, lastRunAt, sources, trends, priceSnapshots, events,
                 feed, now, act, lastReturn, call, ret, runsStarted, failures,
                 feedChanges>>

\* stopTrendCron()
stopTrendCron ==
  /\ cron.calls < MaxCronCalls
  /\ cron' = IF cron.scheduledTask # <<>>
             THEN [cron EXCEPT !.tasks[cron.scheduledTask[1]] = FALSE,
                               !.scheduledTask = <<>>,
                               !.calls = @ + 1]
             ELSE [cron EXCEPT !.calls = @ + 1]
  /\ UNCHANGED <<isRunning, lastRunAt, sources, trends, priceSnapshots, events,
                 feed, now, act, lastReturn, subscribers, call, ret,
                 runsStarted, failures, feedChanges>>

\* 06:00 or 18:00 UTC: every active task calls triggerIngestion
ScheduledTick ==
  /\ \E k \in DOMAIN cron.tasks : cron.tasks[k]
  /\ isRunning \/ runsStarted + PendingTimers < MaxRuns
  /\ TriggerCall
  /\ UNCHANGED cron

\* the mock products of seedData, their price history in cents
SeedProducts ==
  <<[externalId |-> "ae_500187234001", name |-> "Portable Neck Fan",
     category |-> "Electronics", description |-> <<"seed">>,
     sourcePlatform |-> "aliexpress", productUrl |-> "url", imageUrl |-> "img",
     baseTrendScore |-> 78, history |-> <<1000, 1100>>],
    [externalId |-> "tt_789456123001", name |-> "Cloud Lamp",
     category |-> "Home & Garden", description |-> <<"seed">>,
     sourcePlatform |-> "tiktok", productUrl |-> "url", imageUrl |-> "img",
     baseTrendScore |-> 92, history |-> <<2000, 1900>>]>>

\* every catalogue product is stored
CataloguePresent ==
  \A k \in DOMAIN SeedProducts :
    MatchingTrends(SeedProducts[k].externalId, SeedProducts[k].sourcePlatform) # {}

\* the delay of startup timer t is over: its callback calls seedMockData,
\* which sends its count query
TimerFires(t) ==
  /\ t \in DOMAIN cron.timers
  /\ cron.timers[t].pc = "waiting"
  /\ cron' = [cron EXCEPT !.timers[t].pc = "seeding",
                          !.timers[t].present = CataloguePresent]
  /\ UNCHANGED <<isRunning, lastRunAt, sources, trends, priceSnapshots, events,
                 feed, now, act, lastReturn, subscribers, call, ret,
                 runsStarted, failures, feedChanges>>

\* seedMockData's insert of product p
SeededTrend(id, p) ==
  InsertedTrend(id, [name |-> p.name, category |-> p.category,
                     description |-> p.description,
                     trendScore |-> p.baseTrendScore,
                     productUrl |-> p.productUrl, imageUrl |-> p.imageUrl,
                     sourcePlatform |-> p.sourcePlatform,
                     externalId |-> p.externalId, detectedAt |-> 0])
\* its price history
SeededSnapshots(id, p) ==
  [k \in 1..Len(p.history) |->
     [trendId |-> id, source |-> p.sourcePlatform, price |-> p.history[k],
      recordedAt |-> 0]]
\* its velocity, from the last two prices of the history
SeededVelocity(p) ==
  LET n == Len(p.history)
  IN <<RoundDiv((p.history[n] - p.history[n - 1]) * 10000, p.history[n - 1])>>

SeedFrame ==
  UNCHANGED <<isRunning, lastRunAt, sources, events, feed, now, act,
              lastReturn, subscribers, call, ret, runsStarted, failures,
              feedChanges>>

\* seedMockData: the count query returned; skip when the table has at least
\* as many rows as the catalogue, else start the loop
SeedCount(t) ==
  /\ t \in DOMAIN cron.timers
  /\ cron.timers[t].pc = "seeding"
  /\ cron' = IF Len(trends) >= Len(SeedProducts)
             THEN [cron EXCEPT !.timers[t].pc = "return"]
             ELSE [cron EXCEPT !.timers[t].pc = "select", !.timers[t].k = 1]
  /\ UNCHANGED <<trends, priceSnapshots>>
  /\ SeedFrame

\* the loop is through product k: the next product, or the end of the loop
SeedAdvanced(timer) ==
  IF timer.k < Len(SeedProducts)
  THEN [timer EXCEPT !.pc = "select", !.k = @ + 1]
  ELSE [timer EXCEPT !.pc = "return"]

\* seedMockData: the select for product k returned; skip it when a row exists
SeedSelect(t) ==
  /\ t \in DOMAIN cron.timers
  /\ cron.timers[t].pc = "select"
  /\ LET p == SeedProducts[cron.timers[t].k]
     IN cron' = IF MatchingTrends(p.externalId, p.sourcePlatform) # {}
                THEN [cron EXCEPT !.timers[t] = SeedAdvanced(@)]
                ELSE [cron EXCEPT !.timers[t].pc = "insert"]
  /\ UNCHANGED <<trends, priceSnapshots>>
  /\ SeedFrame

\* seedMockData: the insert of product k returned the new row
SeedInsert(t) ==
  /\ t \in DOMAIN cron.timers
  /\ cron.timers[t].pc = "insert"
  /\ trends' = Append(trends, SeededTrend(Len(trends) + 1,
                                          SeedProducts[cron.timers[t].k]))
  /\ cron' = [cron EXCEPT !.timers[t].pc = "history",
                          !.timers[t].id = Len(trends) + 1]
  /\ UNCHANGED priceSnapshots
  /\ SeedFrame

\* seedMockData: the history and the velocity of the new row are written
\* (the hash anchors go to a table of their own); created++
SeedHistory(t) ==
  /\ t \in DOMAIN cron.timers
  /\ cron.timers[t].pc = "history"
  /\ LET p == SeedProducts[cron.timers[t].k]
         id == cron.timers[t].id
     IN /\ priceSnapshots' = priceSnapshots \o SeededSnapshots(id, p)
        /\ trends' = [trends EXCEPT ![id].priceVelocity = SeededVelocity(p)]
  /\ cron' = [cron EXCEPT !.timers[t] =
                SeedAdvanced([@ EXCEPT !.created = @ + 1])]
  /\ SeedFrame

\* seedMockData returns created > 0
SeedReturns(t) ==
  /\ t \in DOMAIN cron.timers
  /\ cron.timers[t].pc = "return"
  /\ cron' = [cron EXCEPT !.timers[t].pc = "seeded", !.timers[t].seed = "ok",
                          !.timers[t].result = <<cron.timers[t].created > 0>>]
  /\ UNCHANGED <<trends, priceSnapshots>>
  /\ SeedFrame

\* timer t is inside seedMockData, waiting for a database call
Seeding(t) ==
  /\ t \in DOMAIN cron.timers
  /\ cron.timers[t].pc \in {"seeding", "select", "insert", "history"}

\* a seed failure that ends the timer's callback
SeedThrowsFatal(t) ==
  /\ Seeding(t)
  /\ cron' = [cron EXCEPT !.timers[t].pc = "aborted", !.timers[t].seed = "failed"]
  /\ UNCHANGED <<trends, priceSnapshots>>
  /\ SeedFrame

\* a database call of seedMockData rejected; caught and logged by the callback
SeedThrows(t) ==
  /\ Seeding(t)
  /\ cron' = [cron EXCEPT !.timers[t].pc = "seeded", !.timers[t].seed = "failed"]
  /\ UNCHANGED <<trends, priceSnapshots>>
  /\ SeedFrame

\* the callback of timer t, past the try/catch: triggerIngestion(), not awaited
StartupTrigger(t) ==
  /\ t \in DOMAIN cron.timers
  /\ cron.timers[t].pc = "seeded"
  /\ cron' = [cron EXCEPT !.timers[t].pc = "called", !.timers[t].calls = @ + 1]
  /\ TriggerCall

\* the module as loaded, before the server calls startTrendCron; the
\* marketplaces list nothing
InitCron ==
  /\ isRunning = FALSE
  /\ lastRunAt = <<>>
  /\ sources = BuiltinSources
  /\ trends = <<>>
  /\ priceSnapshots = <<>>
  /\ events = <<>>
  /\ feed = [s \in SourceNames |-> <<>>]
  /\ now = 1
  /\ act = [r \in Activations |-> Idle]
  /\ lastReturn = <<>>
  /\ subscribers = <<>>
  /\ cron = Unscheduled
  /\ call = <<>>
  /\ ret = <<>>
  /\ runsStarted = 0
  /\ failures = 0
  /\ feedChanges = 0

NextCron ==
  \/ startTrendCron
  \/ stopTrendCron
  \/ ScheduledTick
  \/ \E t \in TimerIds : TimerFires(t)
  \/ \E t \in TimerIds : SeedCount(t)
  \/ \E t \in TimerIds : SeedSelect(t)
  \/ \E t \in TimerIds : SeedInsert(t)
  \/ \E t \in TimerIds : SeedHistory(t)
  \/ \E t \in TimerIds : SeedReturns(t)
  \/ \E t \in TimerIds : SeedThrows(t)
  \/ \E t \in TimerIds : StartupTrigger(t)
  \/ \E r \in Activations : Fetch(r)

SpecCron == InitCron /\ [][NextCron]_vars

\* the timer fires once its delay is over, seedMockData settles, the rest of
\* the callback runs, and an awaited fetch settles
SpecCronLive ==
  /\ SpecCron
  /\ \A t \in TimerIds :
       /\ WF_vars(TimerFires(t))
       /\ WF_vars(SeedCount(t) \/ SeedSelect(t) \/ SeedInsert(t)
                     \/ SeedHistory(t) \/ SeedReturns(t) \/ SeedThrows(t))
       /\ WF_vars(StartupTrigger(t))
  /\ \A r \in Activations : WF_vars(Fetch(r))

\* the schedules that are active, and getIngestionStatus().cronActive
ActiveTasks == {k \in DOMAIN cron.tasks : cron.tasks[k]}
cronActive == cron.scheduledTask # <<>>
\* the listeners startTrendCron has registered on "trend:discovered"
SchedulerListeners == {k \in DOMAIN subscribers : subscribers[k] = "log"}

\* the parts of C29 about the schedule
OneSchedule ==
  /\ [](Cardinality(ActiveTasks) <= 1)
  /\ [](cronActive <=> ActiveTasks # {})
  /\ [][(cronActive /\ startTrendCron) =>
          /\ cron' = [cron EXCEPT !.calls = @ + 1]
          /\ UNCHANGED subscribers]_vars
  /\ [][(~cronActive /\ startTrendCron) => cronActive']_vars
  /\ [][(cronActive /\ stopTrendCron) => ~cronActive']_vars
  /\ [][(cronActive' # cronActive) => (startTrendCron \/ stopTrendCron)]_vars

\* C29: startTrendCron is a no-op when a schedule is already active: after
\* any sequence of startTrendCron and stopTrendCron calls at most one
\* schedule is active, cronActive is true exactly when the last call that
\* was not a no-op was a start, and a trend-discovered event is logged by at
\* most one listener of the scheduler.
C29_OneScheduleOneListener ==
  /\ OneSchedule
  /\ [](Cardinality(SchedulerListeners) <= 1)

\* the callback of startup timer t calls triggerIngestion in this step
StartupCalls(t) ==
  /\ t \in DOMAIN cron.timers
  /\ cron'.timers[t].calls # cron.timers[t].calls

\* C30: after startTrendCron has started the schedule, the one-shot startup
\* path eventually calls the guarded triggerIngestion, exactly once, after
\* the startup seeding has finished, and also when the seeding failed.
C30_StartupTrigger ==
  /\ [][(~cronActive /\ startTrendCron) =>
          /\ Len(cron'.timers) = Len(cron.timers) + 1
          /\ cron'.timers[Len(cron'.timers)] = NewTimer]_vars
  /\ \A t \in TimerIds :
       (t \in DOMAIN cron.timers) ~>
         (/\ t \in DOMAIN cron.timers
          /\ cron.timers[t].calls = 1
          /\ cron.timers[t].seed \in {"ok", "failed"})
  /\ [](\A t \in DOMAIN cron.timers : cron.timers[t].calls <= 1)
  /\ [][\A t \in TimerIds :
          StartupCalls(t) =>
            /\ cron.timers[t].pc = "seeded"
            /\ cron.timers[t].seed \in {"ok", "failed"}
            /\ isRunning => (lastReturn' = Skipped /\ act' = act)
            /\ ~isRunning => (isRunning' /\ Running' # {}
                              /\ runsStarted' = runsStarted + 1)]_vars

\* the seeding failed, and the startup path has started the first run
C30_Witness ==
  \E t \in DOMAIN cron.timers :
    /\ cron.timers[t].seed = "failed"
    /\ cron.timers[t].calls = 1
    /\ cron.timers[t].pc = "called"
    /\ isRunning
    /\ runsStarted = 1
    /\ trends = <<>>

\* the seedMockData call of timer t returns in this step
SeedCallReturns(t) ==
  /\ t \in DOMAIN cron.timers
  /\ cron.timers[t].pc = "return"
  /\ cron'.timers[t].pc = "seeded"

\* the seedMockData call of timer t inserts a trend in this step
SeedCallInserts(t) ==
  /\ t \in DOMAIN cron.timers
  /\ cron.timers[t].pc = "insert"
  /\ cron'.timers[t].pc = "history"

\* what the return values of seedMockData tell
SeedReturnValue ==
  [][\A t \in TimerIds :
       SeedCallReturns(t) =>
         /\ cron'.timers[t].result = <<cron.timers[t].created > 0>>
         /\ cron.timers[t].present =>
              (cron.timers[t].created = 0 /\ cron'.timers[t].result = <<FALSE>>)]_vars

\* C31: seedMockData is idempotent: it never inserts a trend whose
\* (externalId, sourcePlatform) already exists; a call made when every
\* catalogue product is already stored inserts nothing and returns false,
\* and a call that inserted at least one product returns true.
C31_SeedIdempotent ==
  /\ SeedReturnValue
  /\ [][\A t \in TimerIds :
          SeedCallInserts(t) =>
            LET row == trends'[Len(trends')]
            IN MatchingTrends(row.externalId, row.sourcePlatform) = {}]_vars

\* the order of the persistence calls made for one product
StepOrder ==
  {<<"select", "write">>, <<"write", "snapshot">>, <<"snapshot", "lastTwo">>,
   <<"lastTwo", "velocity">>, <<"lastTwo", "count">>, <<"velocity", "count">>,
   <<"count", "score">>}

\* row k of the table differs from what it was only in column c
OnlyColumnChanged(k, c) ==
  /\ DOMAIN trends' = DOMAIN trends
  /\ \A m \in DOMAIN trends :
       IF m = k THEN \A f \in DOMAIN trends[m] \ {c} : trends'[m][f] = trends[m][f]
       ELSE trends'[m] = trends[m]

\* C32: for each product the persistence steps happen in the order upsert,
\* snapshot append, velocity update, score update, and nothing is rolled
\* back: when a step fails, what the earlier steps wrote for the product
\* stays in the tables (a created Trend row stays without a snapshot) and
\* no later step is executed for that product.
C32_OrderedNoRollback ==
  [][\A r \in Activations :
       (act[r].pc \in ItemPcs /\ act'[r] # act[r]) =>
         LET a == act[r]
             b == act'[r]
         IN /\ PersistenceThrows(r) =>
                 /\ ItemEnds(r)
                 /\ trends' = trends
                 /\ priceSnapshots' = priceSnapshots
            /\ ~ItemEnds(r) => <<a.pc, b.pc>> \in StepOrder
            /\ (ItemEnds(r) /\ ~PersistenceThrows(r)) => a.pc = "score"
            /\ trends' # trends => a.pc \in {"write", "velocity", "score"}
            /\ priceSnapshots' # priceSnapshots =>
                 /\ a.pc = "snapshot"
                 /\ Upserted(a)
                 /\ Len(priceSnapshots') = Len(priceSnapshots) + 1
                 /\ SubSeq(priceSnapshots', 1, Len(priceSnapshots)) = priceSnapshots
                 /\ priceSnapshots'[Len(priceSnapshots')].trendId = a.trend[1].id
            /\ (a.pc = "velocity" /\ ~PersistenceThrows(r)) =>
                 /\ OnlyColumnChanged(a.trend[1].id, "priceVelocity")
                 /\ getSnapshotCount(a.trend[1].id) >= 2
            /\ (a.pc = "score" /\ ~PersistenceThrows(r)) =>
                 OnlyColumnChanged(a.trend[1].id, "trendScore")]_vars

\* the snapshot append of a new product failed: the run is over and the
\* created row is in the table without a snapshot, velocity or computed score
C32_Witness ==
  /\ Running = {}
  /\ failures = 1
  /\ \E k \in DOMAIN trends :
       /\ SnapshotsOf(trends[k].id) = <<>>
       /\ trends[k].priceVelocity = <<>>
       /\ trends[k].trendScore = BASE_TREND_SCORE

\* processProduct of activation r returns in this step (nothing threw)
ItemSucceeds(r) ==
  /\ act[r].pc = "score"
  /\ act'[r] # act[r]
  /\ ~PersistenceThrows(r)

\* C33: after a product is processed without failure on a trend that then
\* has at least two snapshots and whose previous latest price is not zero,
\* the persisted priceVelocity is the percent change, to a nearest
\* hundredth, from the trend's previous most recent snapshot to the snapshot
\* appended for this product.
C33_VelocityOfAppended ==
  [][\A r \in Activations :
       ItemSucceeds(r) =>
         LET a == act[r]
             id == a.trend[1].id
             mine == SnapshotsOf(id)
             n == Len(mine)
         IN (n >= 2 /\ mine[n - 1].price # 0) =>
              LET current == mine[n].price
                  previous == mine[n - 1].price
                  exact == 10000 * (current - previous)
                  velocity == trends'[id].priceVelocity
              IN /\ Len(priceSnapshots) = a.snapsBefore + 1
                 /\ mine[n] = priceSnapshots[Len(priceSnapshots)]
                 /\ current = ToFixed2(CurrentProduct(a).price)
                 /\ velocity # <<>>
                 /\ 2 * Abs(velocity[1] * previous - exact) <= previous]_vars

\* a product listed at 10.00 was listed again at 7.996: its trend's velocity
\* is -20.00 percent
C33_Witness ==
  /\ Running = {}
  /\ \E k \in DOMAIN trends :
       LET mine == SnapshotsOf(trends[k].id)
       IN /\ Len(mine) = 2
          /\ mine[1].price = 1000
          /\ mine[2].price = 800
          /\ trends[k].priceVelocity = <<-2000>>

\* the composite score of base 50 with a velocity, a source and a count
ScoreFromBase(velocity, source, count) ==
  calculateTrendScore(Num(BASE_TREND_SCORE), velocity, source,
                      count).trendScore[2]

\* C34: no score drift: after a product is processed without failure the
\* persisted trendScore of its trend is calculateTrendScore applied once to
\* the base score 50 with the velocity computed in this processing, the
\* product's source and the trend's snapshot count, whatever score the row
\* held before and however many runs have processed it.
C34_NoScoreDrift ==
  [][\A r \in Activations :
       ItemSucceeds(r) =>
         LET a == act[r]
             id == a.trend[1].id
         IN /\ a.trend[1].trendScore = BASE_TREND_SCORE
            /\ trends'[id].trendScore =
                 ScoreFromBase(a.velocity, CurrentProduct(a).source,
                               getSnapshotCount(id))]_vars

\* a trend whose first run left a score other than 50 has been processed a
\* second time: its score is the one of base 50 with its velocity
C34_Witness ==
  /\ Running = {}
  /\ failures = 0
  /\ runsStarted = 2
  /\ \E k \in DOMAIN trends :
       /\ getSnapshotCount(trends[k].id) = 2
       /\ trends[k].priceVelocity # <<>>
       /\ ScoreFromBase(<<>>, trends[k].sourcePlatform, 1) # BASE_TREND_SCORE
       /\ trends[k].trendScore =
            ScoreFromBase(trends[k].priceVelocity, trends[k].sourcePlatform, 2)
       /\ trends[k].trendScore #
            ScoreFromBase(<<>>, trends[k].sourcePlatform, 1)

\* C35: after every product processed without failure the persisted
\* trendScore of its trend is the composite score of base 50 with the
\* trend's persisted priceVelocity (none when the column is null), its
\* source and its snapshot count.
C35_ScoreMatchesVelocity ==
  [][\A r \in Activations :
       ItemSucceeds(r) =>
         LET id == act[r].trend[1].id
         IN trends'[id].trendScore =
              ScoreFromBase(trends'[id].priceVelocity,
                            trends'[id].sourcePlatform,
                            getSnapshotCount(id))]_vars

\* ---------------------------------------------------------------- read path
\* { ...t, trendScore, confidenceBand } of trendService: the row with the
\* result of calculateTrendScore applied to its stored score, its stored
\* velocity, its platform and its snapshot count
Rescored(t, snapshotCount) ==
  LET scored == calculateTrendScore(Num(t.trendScore), t.priceVelocity,
                                    t.sourcePlatform, snapshotCount)
  IN [row |-> t, trendScore |-> scored.trendScore,
      confidenceBand |-> scored.confidenceBand]

ReadThrew == <<[kind |-> "throws", value |-> <<>>]>>
ReadReturned(value) == <<[kind |-> "ok", value |-> value]>>

ReadFrame ==
  UNCHANGED <<isRunning, lastRunAt, sources, cron, subscribers, trends,
              priceSnapshots, events, feed, now, act, lastReturn,
              runsStarted, feedChanges>>

\* the categories a request filters by (Undefined: no filter)
Categories == {Undefined, "Electronics"}

\* storage.getTrends(category): the rows of the category, ORDER BY
\* trend_score DESC; rows of equal score come in any order
getTrends(category) ==
  LET hits == {k \in DOMAIN trends :
                 category = Undefined \/ trends[k].category = category}
      n == Cardinality(hits)
  IN {[k \in 1..n |-> trends[order[k]]] :
        order \in {o \in [1..n -> hits] :
                     /\ \A m1, m2 \in 1..n : o[m1] = o[m2] => m1 = m2
                     /\ \A m \in 1..(n - 1) :
                          trends[o[m]].trendScore >= trends[o[m + 1]].trendScore}}

\* trendService.getTrend(id): const trend = await storage.getTrend(id);
\* if (!trend) return null
GetTrendSelect(id) ==
  /\ call = <<>>
  /\ ReadFrame
  /\ \/ /\ Throws
        /\ call' = [fn |-> "getTrend", id |-> id, trend |-> <<>>]
        /\ ret' = ReadThrew
     \/ /\ Returns
        /\ IF id \in DOMAIN trends
           THEN /\ call' = [fn |-> "getTrend", id |-> id,
                            trend |-> <<trends[id]>>]
                /\ ret' = <<>>
           ELSE /\ call' = [fn |-> "getTrend", id |-> id, trend |-> <<>>]
                /\ ret' = ReadReturned(<<>>)

\* trendService.getTrend: await storage.getSnapshotCount(id), then
\* calculateTrendScore and the return
GetTrendCount ==
  /\ call # <<>>
  /\ call.fn = "getTrend"
  /\ ret = <<>>
  /\ ReadFrame
  /\ UNCHANGED call
  /\ \/ /\ Throws
        /\ ret' = ReadThrew
     \/ /\ Returns
        /\ ret' = ReadReturned(<<Rescored(call.trend[1],
                                          getSnapshotCount(call.id))>>)

\* trendService.getTrends(category): const rawTrends = await
\* storage.getTrends(category, search); the map then issues one
\* getSnapshotCount per row
GetTrendsSelect(category) ==
  /\ call = <<>>
  /\ ReadFrame
  /\ \/ /\ Throws
        /\ call' = [fn |-> "getTrends", category |-> category,
                    rawTrends |-> <<>>, out |-> <<>>]
        /\ ret' = ReadThrew
     \/ /\ Returns
        /\ \E rawTrends \in getTrends(category) :
             call' = [fn |-> "getTrends", category |-> category,
                      rawTrends |-> rawTrends, out |-> <<>>]
        /\ ret' = <<>>

\* one getSnapshotCount of the map settles: the callback of its row returns
\* the rescored row, or Promise.all rejects
GetTrendsCount ==
  /\ call # <<>>
  /\ call.fn = "getTrends"
  /\ ret = <<>>
  /\ Len(call.out) < Len(call.rawTrends)
  /\ ReadFrame
  /\ \/ /\ Throws
        /\ ret' = ReadThrew
        /\ UNCHANGED call
     \/ /\ Returns
        /\ LET t == call.rawTrends[Len(call.out) + 1]
           IN call' = [call EXCEPT !.out =
                         Append(@, Rescored(t, getSnapshotCount(t.id)))]
        /\ UNCHANGED ret

\* Promise.all resolves with the results of all callbacks
GetTrendsReturn ==
  /\ call # <<>>
  /\ call.fn = "getTrends"
  /\ ret = <<>>
  /\ Len(call.out) = Len(call.rawTrends)
  /\ ReadFrame
  /\ ret' = ReadReturned(call.out)
  /\ UNCHANGED <<call, failures>>

\* The state after one run in which aliexpress listed the product of
\* RawListing and tiktok nothing, with any listings now; one more run and
\* one read request are considered.
ListedProduct == normalizeProduct(RawListing("aliexpress")).product
ListedInserted == InsertedTrend(1, TrendData(ListedProduct, 2))
ListedScored ==
  [ListedInserted EXCEPT !.trendScore =
     calculateTrendScore(Num(ListedInserted.trendScore), <<>>, "aliexpress",
                         1).trendScore[2]]

InitReads ==
  /\ isRunning = FALSE
  /\ lastRunAt = <<3>>
  /\ sources = BuiltinSources
  /\ trends = <<ListedScored>>
  /\ priceSnapshots = <<SnapshotData(ListedInserted, ListedProduct, 2)>>
  /\ events = <<ListedInserted>>
  /\ feed \in [SourceNames -> UNION {Feeds(s) : s \in SourceNames}]
  /\ \A s \in SourceNames : feed[s] \in Feeds(s)
  /\ now = 3
  /\ act = [r \in Activations |-> Idle]
  /\ lastReturn = <<[status |-> "completed", result |-> FirstRunResult]>>
  /\ subscribers = <<"log">>
  /\ cron = Booted
  /\ call = <<>>
  /\ ret = <<>>
  /\ runsStarted = MaxRuns - 1
  /\ failures = 0
  /\ feedChanges = 0

NextReads ==
  \/ Next
  \/ \E id \in 1..(Len(trends) + 1) : GetTrendSelect(id)
  \/ GetTrendCount
  \/ \E category \in Categories : GetTrendsSelect(category)
  \/ GetTrendsCount
  \/ GetTrendsReturn

\* the pipeline together with requests that read trends
SpecReads == InitReads /\ [][NextReads]_vars

\* no run is in progress and no call has failed: every row was last written
\* by a successful ingestion
SettledRows == Running = {} /\ failures = 0

\* C36: the read path does not change the score: for a trend last written
\* by a successful ingestion, the trendScore that trendService.getTrend
\* returns, and the one getTrends returns for it, equals the persisted
\* trendScore.
C36_ReadKeepsScore ==
  (SettledRows /\ call # <<>> /\ ret # <<>> /\ ret[1].kind = "ok") =>
    /\ (call.fn = "getTrend" /\ ret[1].value # <<>>) =>
         LET got == ret[1].value[1]
         IN trends[call.id] = got.row =>
              got.trendScore = Num(trends[call.id].trendScore)
    /\ call.fn = "getTrends" =>
         \A k \in DOMAIN ret[1].value :
           LET got == ret[1].value[k]
           IN trends[got.row.id] = got.row =>
                got.trendScore = Num(trends[got.row.id].trendScore)

\* the distinct (source, externalId) pairs among the accepted records
AcceptedKeys(raws) ==
  {<<normalizeProduct(raws[k]).product.source,
     normalizeProduct(raws[k]).product.externalId>> :
     k \in {m \in DOMAIN raws : Accepted(raws[m])}}

CountersOrdered(res) ==
  /\ 0 <= res.newTrends
  /\ res.newTrends <= res.upserted
  /\ res.upserted <= res.fetched
  /\ res.errors >= 0

\* the ingestion of a source by activation r ends in this step
SourceEnds(r) ==
  /\ act[r].pc \in ItemPcs \cup {"fetch"}
  /\ \/ act'[r].pc = "idle" /\ lastReturn'[1].status = "completed"
     \/ act'[r].pc # "idle" /\ act'[r].src = act[r].src + 1

\* the result of the source whose ingestion ends in this step
FinalResult(r) ==
  IF act'[r].pc = "idle" THEN lastReturn'[1].result.sources[act[r].src]
  ELSE act'[r].results[act[r].src]

\* C37: at every point of a source's ingestion and in its final result,
\* 0 <= newTrends <= upserted <= fetched and errors >= 0, and upserted never
\* exceeds the number of distinct source:externalId keys among the accepted
\* records of the fetch.
C37_Counters ==
  /\ [](\A r \in Running :
          LET a == act[r]
          IN /\ CountersOrdered(a.result)
             /\ a.result.upserted <= Cardinality(AcceptedKeys(a.rawProducts))
             /\ \A k \in DOMAIN a.results : CountersOrdered(a.results[k]))
  /\ [](LastCompleted =>
          \A k \in DOMAIN lastReturn[1].result.sources :
            CountersOrdered(lastReturn[1].result.sources[k]))
  /\ [][\A r \in Activations :
          SourceEnds(r) =>
            /\ CountersOrdered(FinalResult(r))
            /\ FinalResult(r).upserted <=
                 Cardinality(AcceptedKeys(
                   IF act[r].pc = "fetch" THEN feed[sources[act[r].src]]
                   ELSE act[r].rawProducts))]_vars

\* a second run fetched a product twice: one update, no new trend
C37_Witness ==
  /\ LastCompleted
  /\ runsStarted = 2
  /\ Running = {}
  /\ LET res == lastReturn[1].result.sources[1]
     IN /\ res.fetched = 2
        /\ res.upserted = 1
        /\ res.newTrends = 0
        /\ res.errors = 0
        /\ Cardinality(AcceptedKeys(feed["aliexpress"])) = 1
        /\ Len(feed["aliexpress"]) = 2

\* ------------------------------------------------- the batch loops alone
MaxList == 6
MaxBatchSize == 4

\* a slice that takes one element too many
sliceInclusive(arr, start, end) ==
  SubSeq(arr, start + 1, Min(end + 1, Len(arr)))

\* Array.prototype.slice(start, end) for 0 <= start <= end
slice(arr, start, end) == SubSeq(arr, start + 1, Min(end, Len(arr)))

\* the normalized, deduplicated list of a fetch of n products
NormalizedList(n) ==
  [k \in 1..n |-> normalizeProduct(RawBulk("aliexpress", k)).product]

\* step 3 of ingestSource over a list, with a batch size: i is the loop
\* variable, batch the current chunk, j the products of it that processBatch
\* is through with, handed the products passed to processProduct so far
BatchLoops ==
  {[fn |-> "ingestSource", pc |-> "loop", normalized |-> NormalizedList(n),
    size |-> size, i |-> 0, batch |-> <<>>, j |-> 0, handed |-> <<>>] :
     n \in 0..MaxList, size \in 1..MaxBatchSize}

InitChunks ==
  /\ isRunning = FALSE
  /\ lastRunAt = <<>>
  /\ sources = BuiltinSources
  /\ trends = <<>>
  /\ priceSnapshots = <<>>
  /\ events = <<>>
  /\ feed = [s \in SourceNames |-> <<>>]
  /\ now = 1
  /\ act = [r \in Activations |-> Idle]
  /\ lastReturn = <<>>
  /\ subscribers = <<"log">>
  /\ cron = Booted
  /\ call \in BatchLoops
  /\ ret = <<>>
  /\ runsStarted = 0
  /\ failures = 0
  /\ feedChanges = 0

ChunkFrame ==
  UNCHANGED <<isRunning, lastRunAt, sources, cron, subscribers, trends,
              priceSnapshots, events, feed, now, act, lastReturn,
              runsStarted, failures, feedChanges>>

\* for (let i = 0; i < normalized.length; i += BATCH_SIZE): the test, then
\* const batch = normalized.slice(i, i + BATCH_SIZE) and the call of
\* processBatch, or the end of the loop
SliceBatch ==
  /\ call.pc = "loop"
  /\ ChunkFrame
  /\ IF call.i < Len(call.normalized)
     THEN /\ call' = [call EXCEPT
                        !.pc = "batch",
                        !.batch = slice(call.normalized, call.i,
                                        call.i + call.size),
                        !.j = 0]
          /\ UNCHANGED ret
     ELSE /\ call' = [call EXCEPT !.pc = "done"]
          /\ ret' = <<call.handed>>

\* processBatch: for (const product of products) await
\* processProduct(product, result), which returns or throws into the catch
HandProduct ==
  /\ call.pc = "batch"
  /\ call.j < Len(call.batch)
  /\ ChunkFrame
  /\ call' = [call EXCEPT !.handed = Append(@, call.batch[call.j + 1]),
                          !.j = @ + 1]
  /\ UNCHANGED ret

\* processBatch returns: i += BATCH_SIZE
BatchReturns ==
  /\ call.pc = "batch"
  /\ call.j = Len(call.batch)
  /\ ChunkFrame
  /\ call' = [call EXCEPT !.pc = "loop", !.i = @ + call.size]
  /\ UNCHANGED ret

NextChunks == SliceBatch \/ HandProduct \/ BatchReturns

\* the batch loops of ingestSource for every list length and batch size
SpecChunks == InitChunks /\ [][NextChunks]_vars

\* C38: chunking loses and duplicates nothing: for every list length and
\* batch size the chunks have the batch size (the last one what is left),
\* one chunk is processed at a time, and the products handed to per-item
\* processing are at every point the first products of the list, each once
\* and in fetch order, and the whole list when the loop is over.
C38_ChunkingExact ==
  LET n == Len(call.normalized)
  IN /\ call.handed = SubSeq(call.normalized, 1, Len(call.handed))
     /\ call.pc = "loop" => Len(call.handed) = Min(call.i, n)
     /\ call.pc = "batch" =>
          /\ call.i < n
          /\ Len(call.batch) = Min(call.size, n - call.i)
          /\ call.batch = SubSeq(call.normalized, call.i + 1,
                                 call.i + Len(call.batch))
          /\ Len(call.handed) = call.i + call.j
     /\ call.pc = "done" =>
          /\ call.handed = call.normalized
          /\ ret = <<call.normalized>>
     /\ \A m1, m2 \in DOMAIN call.handed :
          call.handed[m1] = call.handed[m2] => m1 = m2

\* five products in batches of two (2, 2, 1) have all been handed on
C38_Witness ==
  /\ call.pc = "done"
  /\ call.size = 2
  /\ Len(call.normalized) = 5
  /\ call.i = 6
  /\ Len(call.batch) = 1
  /\ call.handed = call.normalized

\* ---------------------------------------------------------------- progress
\* an awaited call of activation r settles: fetch() or a storage call
\* returns or throws, and the code up to the next await runs
Settles(r) ==
  \/ Fetch(r)
  \/ UpsertSelect(r)
  \/ UpsertWrite(r)
  \/ CreatePriceSnapshot(r)
  \/ GetLastTwo(r)
  \/ UpdateVelocity(r)
  \/ GetSnapshotCount(r)
  \/ UpdateScore(r)

\* an empty database; aliexpress lists two products, tiktok one
InitLive ==
  /\ Init
  /\ feed["aliexpress"] = <<RawListing("aliexpress"), RawFree("aliexpress")>>
  /\ feed["tiktok"] = <<RawListing("tiktok")>>

\* the pipeline under the assumption that every adapter fetch and every
\* storage call eventually returns or throws
SpecLive ==
  /\ InitLive
  /\ [][Next]_vars
  /\ \A r \in Activations : WF_vars(Settles(r))

\* C39: assuming every adapter fetch and storage call eventually returns or
\* throws, every run started by triggerIngestion eventually finishes, its
\* call returning "completed" or "failed", and isRunning eventually becomes
\* false.
C39_RunsFinish ==
  /\ (isRunning \/ Running # {}) ~> (~isRunning /\ Running = {})
  /\ [][\A r \in Activations :
          (act[r].pc # "idle" /\ act'[r].pc = "idle") =>
            /\ lastReturn'[1].status \in {"completed", "failed"}
            /\ ~isRunning']_vars

\* a run over two sources with three products has completed after a
\* rejected storage call
C39_Witness ==
  /\ LastCompleted
  /\ Running = {}
  /\ ~isRunning
  /\ failures = 1
  /\ lastReturn[1].result.totalUpserted = 3
  /\ lastReturn[1].result.totalErrors >= 1

\* ------------------------------------------------------- overlapping runs
\* runIngestion is exported: a caller other than triggerIngestion starts a
\* run without looking at isRunning
runIngestion ==
  /\ runsStarted < MaxRuns
  /\ \E r \in Activations : act[r].pc = "idle"
  /\ act' = [act EXCEPT ![FreeActivation] =
               [Idle EXCEPT !.pc = "fetch", !.startedAt = now, !.src = 1,
                            !.result = NewResult(sources[1]),
                            !.direct = TRUE]]
  /\ runsStarted' = runsStarted + 1
  /\ now' = now + 1
  /\ UNCHANGED <<isRunning, lastRunAt, sources, cron, subscribers, call, ret,
                 trends, priceSnapshots, events, feed, lastReturn, failures,
                 feedChanges>>

\* an empty database; each marketplace lists the product of RawListing
InitOverlap ==
  /\ Init
  /\ feed["aliexpress"] = <<RawListing("aliexpress")>>
  /\ feed["tiktok"] = <<RawListing("tiktok")>>

NextOverlap == Next \/ runIngestion

\* the pipeline with callers that start runs directly
SpecOverlap == InitOverlap /\ [][NextOverlap]_vars

\* C40: upsertTrendByExternalId is safe under overlapping callers: when
\* runs that bypass the scheduler guard interleave at their persistence
\* calls on the same (externalId, sourcePlatform), at most one Trend row
\* exists for the pair and at most one upsert has reported isNew = true for
\* it (one trend:discovered event, emitted exactly when isNew).
C40_OverlapSafe ==
  /\ \A k1, k2 \in DOMAIN trends :
       (/\ trends[k1].externalId = trends[k2].externalId
        /\ trends[k1].sourcePlatform = trends[k2].sourcePlatform) => k1 = k2
  /\ \A e1, e2 \in DOMAIN events :
       (/\ events[e1].externalId = events[e2].externalId
        /\ events[e1].sourcePlatform = events[e2].sourcePlatform) => e1 = e2
  /\ \A r1, r2 \in Activations :
       (/\ act[r1].pc = "snapshot" /\ act[r1].isNew
        /\ act[r2].pc = "snapshot" /\ act[r2].isNew
        /\ DedupKey(CurrentProduct(act[r1])) = DedupKey(CurrentProduct(act[r2])))
         => r1 = r2

====
